---- MODULE Spec2Model ----
(***************************************************************************)
(* Model of the selection and resilience engine of go-proxy:               *)
(*   - EnterpriseBalancer  (internal/infrastructure, SelectServer,         *)
(*     UpdateServers, getAvailableServers, UpdateStats, GetServerMetrics)  *)
(*   - ProxyServiceImpl    (internal/application, ServeHTTP,               *)
(*     selectServerWithRetry, createIntelligentProxy, UpdateConfig)        *)
(*   - ServerLifecycle     (internal/infrastructure, graceful removal)     *)
(*                                                                         *)
(* Time is counted in seconds.  Go pointers are modelled explicitly:       *)
(* a *domain.Server is the pair (config object, index in its Servers       *)
(* slice); a *ServerState is the id under which its connection counter is  *)
(* kept in conns.                                                          *)
(*                                                                         *)
(* The deployments explored: Spec (empty proxy, configurations installed   *)
(* and replaced under traffic), SpecDrain, SpecLifecycle and SpecRetire    *)
(* (two servers, graceful removal), SpecBreaker and SpecUnavailable (one   *)
(* server close to its failure threshold, or none), SpecUpsert,            *)
(* SpecForward (every outcome of a round trip), SpecHealth, SpecRelapse    *)
(* (an Unhealthy server), SpecRace (UpdateConfig step by step); and the    *)
(* components on their own: SpecAWRR, SpecWeights (adapted weights),       *)
(* SpecWrr (the round robin called concurrently), SpecHash, SpecClientIP,  *)
(* SpecAdaptive and SpecReload (the adaptive controller), SpecMetrics      *)
(* (GetMetrics), SpecSticky (sticky sessions), SpecAPI and SpecKeys (the   *)
(* configuration API and its keys) and SpecRing (the RingBuffer).          *)
(***************************************************************************)
EXTENDS Integers, Sequences, FiniteSets, TLC

VARIABLES
    now,              \* wall clock, seconds
    cfgs,             \* heap of *domain.Config objects ever handed to the proxy
    config,           \* ProxyServiceImpl.config: 0 = nil, else index into cfgs
    servers,          \* EnterpriseBalancer.servers: URL -> ServerState
    conns,            \* ConnectionPool.ActiveConns of every ServerState ever made, by id
    req,              \* one record per request goroutine
    pendingRemovals,  \* ServerLifecycle.pendingRemovals: URL -> RemovalState
    monitors,         \* running monitorDraining goroutines per URL
    budget,           \* calls the environment may still make (par: requests at a time)
    urls,             \* the URLs of the deployment under consideration
    last,             \* observation: the operation performed by the last step
    cur,              \* observation per URL, restarted when a ServerState is created
    hist,             \* observation per URL, never restarted
    callbacks,        \* ServerLifecycle.onServerRemoved / onServerDrained and their calls
    awrr,             \* an AdaptiveWeightedRoundRobin and the server slice it is called on
    ring,             \* a ConsistentHash, its ConsistentHashRing and the slice it is called on
    http,             \* a request as getClientIP sees it, and the identity derived from it
    ctl,              \* the AdaptiveController, the loads it scores and the goroutines in it
    met,              \* ProxyServiceImpl.requestCount, its metrics and the GetMetrics calls
    sticky,           \* ProxyServiceImpl.sessions, the Healthy flags and the HealthChecker
    api,              \* the ConfigManager's configuration and the ConfigAPI handlers on it
    upsert,           \* the UpdateServers call that UpdateConfig is in the middle of
    rb,               \* a RingBuffer, the values added to it and the slices it returned
    wrr               \* the smooth weighted round robin step by step, per goroutine

\* The objects of the components that are studied on their own.
late == <<rb, wrr>>
others == <<met, sticky, api, upsert, late>>
more == <<ctl, others>>
parts == <<awrr, ring, http, more>>

vars == <<now, cfgs, config, servers, conns, req, pendingRemovals, monitors,
          budget, urls, last, cur, hist, callbacks, parts>>

-----------------------------------------------------------------------------
(* Bounds of the model *)

NumRequests == 2
MaxRequests == 2
BreakerRequests == 7
PriorFailures == 9
MaxUpdates == 2
MaxRemovals == 1
MaxTicks == 1
BreakerTicks == 3
BreakerUpdates == 2
UpsertFailures == 10
TickStep == 15

(* Program constants *)

FailureThreshold == 10
RecoveryTimeout == 30
HalfOpenSuccesses == 5
PoolMaxConnections == 1000
UnhealthyWindow == 10
DefaultRetries == 3
DrainTimeout == 30
DegradedFails == 3
UnhealthyFails == 10

\* The zero value of time.Time, far before any reading of the clock.
ZeroTime == -1000

URLs == {"u1", "u2"}
Requests == 1..NumRequests
NoURL == "none"
NoServer == [cfg |-> 0, idx |-> 0]

-----------------------------------------------------------------------------
(* domain.Server, domain.Backend, domain.Config *)

Server(u, w, mc) == [URL |-> u, Weight |-> w, MaxConnections |-> mc, Active |-> TRUE]

\* The rosters an operator may configure (ordered lists of Servers).
Rosters ==
    { <<>>,
      <<Server("u1", 1, 1)>>,
      <<Server("u1", 2, 1), Server("u2", 1, 2)>>,
      <<Server("u2", 1, 2)>> }

RosterURLs(roster) == {roster[i].URL : i \in 1..Len(roster)}

Config(roster) == [Backends |-> 1, Servers |-> roster, Retries |-> 0]

\* A configuration that lists no backends.
NoBackends == [Backends |-> 0, Servers |-> <<>>, Retries |-> 0]

\* Dereference a *domain.Server.
Deref(ptr) == cfgs[ptr.cfg].Servers[ptr.idx]
URLOf(ptr) == IF ptr = NoServer THEN NoURL ELSE Deref(ptr).URL

-----------------------------------------------------------------------------
(* EnterpriseBalancer *)

NewServerState(id, ptr, w) ==
    [id               |-> id,
     Server           |-> ptr,
     Metrics          |-> [RequestCount |-> 0, SuccessCount |-> 0,
                           FailureCount |-> 0, ResponseTimes |-> 0],
     HealthState      |-> "Healthy",
     CircuitBreaker   |-> [State |-> "Closed", FailureCount |-> 0, SuccessCount |-> 0,
                           NextRetryTime |-> ZeroTime,
                           FailureThreshold |-> FailureThreshold,
                           RecoveryTimeout |-> RecoveryTimeout,
                           HalfOpenRequests |-> 0],
     ConnectionPool   |-> [MaxConnections |-> PoolMaxConnections],
     LastHealthCheck  |-> ZeroTime,
     ConsecutiveFails |-> 0,
     Weight           |-> w]

\* The heap of ServerStates.  A ServerState that neither the map nor a pointer in
\* held reaches is garbage: its address is free, and the allocator hands out the
\* lowest free address with the counter zeroed.
StateIds(svs) == {svs[u].id : u \in DOMAIN svs}

FreeIds(svs, cn, held) == {i \in 1..Len(cn) : i \notin StateIds(svs) \cup held}

NewId(svs, cn, held) ==
    IF FreeIds(svs, cn, held) = {} THEN Len(cn) + 1
    ELSE CHOOSE i \in FreeIds(svs, cn, held) : \A j \in FreeIds(svs, cn, held) : i <= j

Collect(svs, cn, held) ==
    [i \in 1..Len(cn) |-> IF i \in FreeIds(svs, cn, held) THEN 0 ELSE cn[i]]

\* Faulty variant of UpsertLoop: a server already in the map gets a new
\* ServerState too.
RECURSIVE UpsertLoopRecreates(_, _, _, _, _, _)
UpsertLoopRecreates(svs, cn, held, cid, roster, i) ==
    IF i > Len(roster) THEN [servers |-> svs, conns |-> cn]
    ELSE LET server == roster[i]
             ptr    == [cfg |-> cid, idx |-> i]
             id     == NewId(svs, cn, held)
         IN  IF server.URL \notin DOMAIN svs
             THEN UpsertLoopRecreates(
                      svs @@ (server.URL :> NewServerState(id, ptr, server.Weight)),
                      IF id > Len(cn) THEN Append(cn, 0) ELSE [cn EXCEPT ![id] = 0],
                      held, cid, roster, i + 1)
             ELSE UpsertLoopRecreates(
                      [svs EXCEPT ![server.URL] =
                                      NewServerState(svs[server.URL].id, ptr, server.Weight)],
                      cn, held, cid, roster, i + 1)

RECURSIVE UpsertLoop(_, _, _, _, _, _)
UpsertLoop(svs, cn, held, cid, roster, i) ==
    IF i > Len(roster) THEN [servers |-> svs, conns |-> cn]
    ELSE LET server == roster[i]
             ptr    == [cfg |-> cid, idx |-> i]
             id     == NewId(svs, cn, held)
         IN  IF server.URL \notin DOMAIN svs
             THEN UpsertLoop(svs @@ (server.URL :> NewServerState(id, ptr, server.Weight)),
                             IF id > Len(cn) THEN Append(cn, 0) ELSE [cn EXCEPT ![id] = 0],
                             held, cid, roster, i + 1)
             ELSE UpsertLoop([svs EXCEPT ![server.URL].Server = ptr,
                                         ![server.URL].Weight = server.Weight],
                             cn, held, cid, roster, i + 1)

\* Faulty variant of UpdateServers: servers absent from the roster stay.
UpdateServersKeepsAbsent(svs, cn, held, cid, roster) ==
    LET r == UpsertLoop(svs, cn, held, cid, roster, 1)
    IN  [servers |-> r.servers,
         conns   |-> Collect(r.servers, r.conns, held)]

UpdateServers(svs, cn, held, cid, roster) ==
    LET r == UpsertLoop(svs, cn, held, cid, roster, 1)
        currentServers == RosterURLs(roster)
        kept == [u \in (DOMAIN r.servers) \cap currentServers |-> r.servers[u]]
    IN  [servers |-> kept,
         conns   |-> Collect(kept, r.conns, held)]

\* Faulty variant of ProbeBreaker: entering HalfOpen also clears the failure count.
ProbeBreakerClearsFailures(state, t) ==
    IF state.CircuitBreaker.State = "Open" /\ t > state.CircuitBreaker.NextRetryTime
    THEN [state EXCEPT !.CircuitBreaker.State = "HalfOpen",
                       !.CircuitBreaker.HalfOpenRequests = 0,
                       !.CircuitBreaker.FailureCount = 0]
    ELSE state

\* The circuit-breaker step of getAvailableServers on one ServerState.
ProbeBreaker(state, t) ==
    IF state.CircuitBreaker.State = "Open" /\ t > state.CircuitBreaker.NextRetryTime
    THEN [state EXCEPT !.CircuitBreaker.State = "HalfOpen",
                       !.CircuitBreaker.HalfOpenRequests = 0]
    ELSE state

getAvailableServers(svs, cn, t) ==
    LET probed == [u \in DOMAIN svs |-> ProbeBreaker(svs[u], t)]
    IN  [servers   |-> probed,
         available |-> {u \in DOMAIN svs :
                          /\ probed[u].CircuitBreaker.State # "Open"
                          /\ ~(probed[u].HealthState = "Unhealthy"
                               /\ t - probed[u].LastHealthCheck < UnhealthyWindow)
                          /\ cn[probed[u].id] < probed[u].ConnectionPool.MaxConnections}]

\* Faulty variant of HealthAfterSuccess: a success makes any server Healthy.
HealthAfterSuccessHealsAll(state) ==
    [state EXCEPT !.ConsecutiveFails = 0, !.HealthState = "Healthy"]

\* The health bookkeeping common to every successful outcome.
HealthAfterSuccess(state) ==
    LET s3 == [state EXCEPT !.ConsecutiveFails = 0]
    IN  IF s3.HealthState \in {"Degraded", "Recovering"}
        THEN [s3 EXCEPT !.HealthState = "Healthy"]
        ELSE s3

\* Faulty variant of RecordSuccess: every success clears the breaker's failure count.
RecordSuccessForgetsFailures(state) ==
    LET s1 == [state EXCEPT !.Metrics.SuccessCount = @ + 1,
                            !.CircuitBreaker.SuccessCount = @ + 1,
                            !.CircuitBreaker.FailureCount = 0]
        s2 == IF s1.CircuitBreaker.State = "HalfOpen"
              THEN LET h == [s1 EXCEPT !.CircuitBreaker.HalfOpenRequests = @ + 1]
                   IN  IF h.CircuitBreaker.HalfOpenRequests >= HalfOpenSuccesses
                       THEN [h EXCEPT !.CircuitBreaker.State = "Closed"]
                       ELSE h
              ELSE s1
    IN  HealthAfterSuccess(s2)

\* Faulty variant of RecordSuccess: the fifth half-open success closes the breaker
\* but leaves its failure count.
RecordSuccessKeepsFailures(state) ==
    LET s1 == [state EXCEPT !.Metrics.SuccessCount = @ + 1,
                            !.CircuitBreaker.SuccessCount = @ + 1]
        s2 == IF s1.CircuitBreaker.State = "HalfOpen"
              THEN LET h == [s1 EXCEPT !.CircuitBreaker.HalfOpenRequests = @ + 1]
                   IN  IF h.CircuitBreaker.HalfOpenRequests >= HalfOpenSuccesses
                       THEN [h EXCEPT !.CircuitBreaker.State = "Closed"]
                       ELSE h
              ELSE s1
    IN  HealthAfterSuccess(s2)

\* Faulty variant of RecordSuccess: a success also closes a breaker that is Open.
RecordSuccessClosesOpen(state) ==
    LET s1 == [state EXCEPT !.Metrics.SuccessCount = @ + 1,
                            !.CircuitBreaker.SuccessCount = @ + 1]
        s2 == IF s1.CircuitBreaker.State = "HalfOpen"
              THEN LET h == [s1 EXCEPT !.CircuitBreaker.HalfOpenRequests = @ + 1]
                   IN  IF h.CircuitBreaker.HalfOpenRequests >= HalfOpenSuccesses
                       THEN [h EXCEPT !.CircuitBreaker.State = "Closed",
                                      !.CircuitBreaker.FailureCount = 0]
                       ELSE h
              ELSE IF s1.CircuitBreaker.State = "Open"
                   THEN [s1 EXCEPT !.CircuitBreaker.State = "Closed",
                                   !.CircuitBreaker.FailureCount = 0]
                   ELSE s1
    IN  HealthAfterSuccess(s2)

RecordSuccess(state) ==
    LET s1 == [state EXCEPT !.Metrics.SuccessCount = @ + 1,
                            !.CircuitBreaker.SuccessCount = @ + 1]
        s2 == IF s1.CircuitBreaker.State = "HalfOpen"
              THEN LET h == [s1 EXCEPT !.CircuitBreaker.HalfOpenRequests = @ + 1]
                   IN  IF h.CircuitBreaker.HalfOpenRequests >= HalfOpenSuccesses
                       THEN [h EXCEPT !.CircuitBreaker.State = "Closed",
                                      !.CircuitBreaker.FailureCount = 0]
                       ELSE h
              ELSE s1
    IN  HealthAfterSuccess(s2)

\* The health bookkeeping common to every failed outcome.
HealthAfterFailure(state) ==
    LET s3 == IF state.ConsecutiveFails >= DegradedFails
              THEN [state EXCEPT !.HealthState = "Degraded"] ELSE state
    IN  IF s3.ConsecutiveFails >= UnhealthyFails
        THEN [s3 EXCEPT !.HealthState = "Unhealthy"] ELSE s3

\* Faulty variant of RecordFailure: the breaker opens without a recovery delay.
RecordFailureNoDelay(state, t) ==
    LET s1 == [state EXCEPT !.Metrics.FailureCount = @ + 1,
                            !.CircuitBreaker.FailureCount = @ + 1,
                            !.ConsecutiveFails = @ + 1]
        s2 == IF s1.CircuitBreaker.FailureCount >= s1.CircuitBreaker.FailureThreshold
              THEN [s1 EXCEPT !.CircuitBreaker.State = "Open",
                              !.CircuitBreaker.NextRetryTime = t]
              ELSE s1
    IN  HealthAfterFailure(s2)

RecordFailure(state, t) ==
    LET s1 == [state EXCEPT !.Metrics.FailureCount = @ + 1,
                            !.CircuitBreaker.FailureCount = @ + 1,
                            !.ConsecutiveFails = @ + 1]
        s2 == IF s1.CircuitBreaker.FailureCount >= s1.CircuitBreaker.FailureThreshold
              THEN [s1 EXCEPT !.CircuitBreaker.State = "Open",
                              !.CircuitBreaker.NextRetryTime = t + s1.CircuitBreaker.RecoveryTimeout]
              ELSE s1
    IN  HealthAfterFailure(s2)

UpdateStats(svs, cn, u, success, t) ==
    IF u \notin DOMAIN svs THEN [servers |-> svs, conns |-> cn]
    ELSE LET s0 == [svs[u] EXCEPT !.Metrics.ResponseTimes = @ + 1]
             s1 == IF success THEN RecordSuccess(s0) ELSE RecordFailure(s0, t)
         IN  [servers |-> [svs EXCEPT ![u] = s1],
              conns   |-> [cn EXCEPT ![svs[u].id] = @ - 1]]

\* GetServerMetrics: one view per ServerState in the map.
GetServerMetrics ==
    [u \in DOMAIN servers |->
        [URL            |-> Deref(servers[u].Server).URL,
         Weight         |-> Deref(servers[u].Server).Weight,
         MaxConnections |-> Deref(servers[u].Server).MaxConnections,
         Active         |-> Deref(servers[u].Server).Active,
         Healthy        |-> servers[u].HealthState = "Healthy",
         CircuitOpen    |-> servers[u].CircuitBreaker.State = "Open",
         TotalRequests  |-> servers[u].Metrics.RequestCount,
         FailedRequests |-> servers[u].Metrics.FailureCount,
         CurrentConns   |-> conns[servers[u].id]]]

-----------------------------------------------------------------------------
(* Observations (history variables; no operation of the program reads them) *)

FreshObs == [streak |-> 0, openedAt |-> ZeroTime, hoSucc |-> 0]

\* No error: a Go error is the sequence of the fragments of its message.
NoError == <<>>

\* status and body are what the client is answered (0 and "": nothing yet, or
\* the response of the backend); err is the error a hook was called with.
Event(op, u, ok, pre) ==
    [op |-> op, url |-> u, ok |-> ok, pre |-> pre, status |-> 0, calls |-> 0,
     err |-> NoError, body |-> ""]

\* Faulty variant of Refusal: the error is answered as a bad gateway.
RefusalBadGateway(body, n) ==
    [op |-> "ServeHTTP", url |-> NoURL, ok |-> FALSE, pre |-> body,
     status |-> 502, calls |-> n, err |-> NoError, body |-> body]

\* ServeHTTP answers http.Error(w, body, http.StatusServiceUnavailable) after n
\* calls of SelectServer.
Refusal(body, n) ==
    [op |-> "ServeHTTP", url |-> NoURL, ok |-> FALSE, pre |-> body,
     status |-> 503, calls |-> n, err |-> NoError, body |-> body]

SameState(old, new, u) ==
    u \in DOMAIN old /\ u \in DOMAIN new /\ old[u].id = new[u].id

\* The observation of URL u after a step that took the registry from old to new at
\* time t and recorded an outcome (ok) for recU (NoURL when it recorded none).
ObserveOne(o, old, new, u, recU, ok, t, restart) ==
    LET base == IF restart /\ u \in DOMAIN new /\ ~SameState(old, new, u) THEN FreshObs ELSE o
        rec  == IF u = recU /\ u \in DOMAIN old
                THEN [base EXCEPT !.streak = IF ok THEN 0 ELSE @ + 1,
                                  !.hoSucc = IF ok /\ old[u].CircuitBreaker.State = "HalfOpen"
                                             THEN @ + 1 ELSE @]
                ELSE base
        becameOpen == /\ u \in DOMAIN new
                      /\ new[u].CircuitBreaker.State = "Open"
                      /\ ~(SameState(old, new, u) /\ old[u].CircuitBreaker.State = "Open")
        becameHalf == /\ u \in DOMAIN new
                      /\ new[u].CircuitBreaker.State = "HalfOpen"
                      /\ ~(SameState(old, new, u) /\ old[u].CircuitBreaker.State = "HalfOpen")
    IN  [rec EXCEPT !.openedAt = IF becameOpen THEN t ELSE @,
                    !.hoSucc   = IF becameHalf THEN 0 ELSE @]

Observe(new, recU, ok) ==
    /\ cur'  = [u \in URLs |-> ObserveOne(cur[u], servers, new, u, recU, ok, now, TRUE)]
    /\ hist' = [u \in URLs |-> ObserveOne(hist[u], servers, new, u, recU, ok, now, FALSE)]

-----------------------------------------------------------------------------
(* Request goroutines: ProxyServiceImpl.ServeHTTP and the hooks of its proxy *)

IdleReq == [pc |-> "idle", cfg |-> 0, i |-> 0, sel |-> 0, server |-> NoServer, first |-> NoURL]

\* Messages of the errors of a round trip, cut so that the texts shouldRetry
\* looks for are fragments of their own.
ConnectionRefused == <<"dial tcp 10.0.0.1:80: connect: ", "connection refused">>
IOTimeout         == <<"dial tcp 10.0.0.1:80: i/o ", "timeout">>
HeaderTimeout     == <<"net/http: ", "timeout", " awaiting response headers">>
NoRouteToHost     == <<"dial tcp 10.0.0.1:80: connect: ", "no route to host">>
UnexpectedEOF     == <<"unexpected EOF">>
ContextCanceled   == <<"context canceled">>
DeadlineExceeded  == <<"context deadline exceeded">>
ConnectionReset   == <<"read tcp 10.0.0.1:80: ", "connection", " reset by peer">>

\* The outcomes of a round trip explored where only their kind matters, and all
\* of them.
TransportErrors == {ConnectionRefused, UnexpectedEOF}
AllErrors ==
    {ConnectionRefused, IOTimeout, HeaderTimeout, NoRouteToHost, UnexpectedEOF,
     ContextCanceled, DeadlineExceeded, ConnectionReset}
Statuses == {200, 500}
AllStatuses == {200, 404, 499, 500, 503}

\* strings.Contains(s, substr).
Contains(s, substr) ==
    \E i \in 0..(Len(s) - Len(substr)) : SubSeq(s, i + 1, i + Len(substr)) = substr

\* Faulty variant of shouldRetry: every error is retried.
shouldRetryAlways(err) == err # NoError

\* shouldRetry(err).
shouldRetry(err) ==
    /\ err # NoError
    /\ \/ Contains(err, <<"connection refused">>)
       \/ Contains(err, <<"timeout">>)
       \/ Contains(err, <<"no route to host">>)

\* http.Error(w, "Service Temporarily Unavailable", http.StatusServiceUnavailable)
\* as the last thing of a step that is otherwise the event e.
Unavailable(e) ==
    [e EXCEPT !.status = 503, !.body = "Service Temporarily Unavailable"]

\* eb.mu is an RWMutex: a goroutine between SelectPick and SelectReturn holds the
\* read lock, and a writer waits for it.
\* The *ServerState pointers held by goroutines and by the Lifecycle Manager.
Held == {req[r].sel : r \in Requests} \cup
        {pendingRemovals[u].ConnectionCount : u \in DOMAIN pendingRemovals}

NoReaders == \A r \in Requests : req[r].pc \notin {"bump", "retry_bump"}

Retries(cid) == IF cfgs[cid].Retries = 0 THEN DefaultRetries ELSE cfgs[cid].Retries

\* ServeHTTP up to the first call of SelectServer (sticky sessions are off).  The
\* goroutines are interchangeable: a new request takes the lowest idle one.
ServeHTTP(r) ==
    /\ req[r].pc = "idle"
    /\ \A q \in Requests : q < r => req[q].pc # "idle"
    /\ r <= budget.par
    /\ budget.req > 0
    /\ budget' = [budget EXCEPT !.req = @ - 1]
    /\ IF (IF config = 0 THEN TRUE ELSE cfgs[config].Backends = 0)
       THEN /\ req' = req
            /\ last' = Refusal("No backends available", 0)
       ELSE /\ req' = [req EXCEPT ![r] = [IdleReq EXCEPT !.pc = "select", !.cfg = config]]
            /\ last' = Event("ServeHTTP", NoURL, TRUE, "")
    /\ UNCHANGED <<parts, callbacks, now, cfgs, config, servers, conns, pendingRemovals, monitors, urls, cur, hist>>

\* SelectServer, first critical section: eb.mu.Lock(); initializeServers; Unlock().
SelectLock(r) ==
    /\ req[r].pc \in {"select", "retry_select"}
    /\ NoReaders
    /\ LET up == UpdateServers(servers, conns, Held, req[r].cfg, cfgs[req[r].cfg].Servers)
       IN  /\ servers' = up.servers
           /\ conns' = up.conns
           /\ Observe(up.servers, NoURL, FALSE)
    /\ req' = [req EXCEPT ![r].pc = IF @ = "select" THEN "rlock" ELSE "retry_rlock"]
    /\ last' = Event("initializeServers", NoURL, TRUE, "")
    /\ UNCHANGED <<parts, callbacks, now, cfgs, config, pendingRemovals, monitors, budget, urls>>

\* SelectServer, second critical section up to the algorithm's choice (read lock
\* taken).  Every Algorithm returns one of the candidates it is given; which one
\* depends on weights, map iteration order and random draws.  The request keeps
\* the chosen state's Server pointer; its callers use only the URL behind it.
SelectPick(r) ==
    /\ req[r].pc \in {"rlock", "retry_rlock"}
    /\ LET av == getAvailableServers(servers, conns, now)
       IN  /\ servers' = av.servers
           /\ Observe(av.servers, NoURL, FALSE)
           /\ IF av.available = {}
              THEN \* SelectServer returns nil: selectServerWithRetry calls it again
                   \* or gives up (req[r].i is its loop variable), the ErrorHandler
                   \* answers "Service Temporarily Unavailable"
                   /\ IF req[r].pc = "rlock" /\ req[r].i + 1 < Retries(req[r].cfg)
                      THEN /\ req' = [req EXCEPT ![r].pc = "select", ![r].i = @ + 1]
                           /\ last' = Event("SelectServer", NoURL, FALSE, "")
                      ELSE /\ req' = [req EXCEPT ![r] = IdleReq]
                           /\ last' = IF req[r].pc = "rlock"
                                      THEN Refusal("No active servers", req[r].i + 1)
                                      ELSE Unavailable(Event("SelectServer", NoURL, FALSE, "retry"))
              ELSE \E u \in av.available :
                   /\ req' = [req EXCEPT ![r].pc = IF @ = "rlock" THEN "bump" ELSE "retry_bump",
                                         ![r].sel = av.servers[u].id,
                                         ![r].server = av.servers[u].Server]
                   /\ last' = Event("algorithm", u, TRUE, "")
    /\ UNCHANGED <<parts, callbacks, now, cfgs, config, conns, pendingRemovals, monitors, budget, urls>>

\* SelectServer, the atomic increments and the return (read lock released), and
\* what the caller does with the server returned.
SelectReturn(r) ==
    /\ req[r].pc \in {"bump", "retry_bump"}
    /\ LET u == URLOf(req[r].server)
           bumped == [x \in DOMAIN servers |->
                        IF servers[x].id = req[r].sel
                        THEN [servers[x] EXCEPT !.Metrics.RequestCount = @ + 1]
                        ELSE servers[x]]
       IN  /\ servers' = bumped
           /\ conns' = [conns EXCEPT ![req[r].sel] = @ + 1]
           /\ Observe(bumped, NoURL, FALSE)
           /\ last' = IF req[r].pc = "retry_bump" /\ u = req[r].first
                      THEN Unavailable(Event("SelectServer", u, Deref(req[r].server).Active,
                                             "retry same"))
                      ELSE Event("SelectServer", u, Deref(req[r].server).Active,
                                 IF req[r].pc = "bump" THEN "" ELSE "retry")
           /\ IF req[r].pc = "bump"
              THEN req' = [req EXCEPT ![r] = [IdleReq EXCEPT !.pc = "forward",
                                                             !.server = req[r].server]]
              ELSE IF u # req[r].first
                   THEN req' = [req EXCEPT ![r] = [IdleReq EXCEPT !.pc = "retry_forward",
                                                                  !.server = req[r].server]]
                   ELSE req' = [req EXCEPT ![r] = IdleReq]
    /\ UNCHANGED <<parts, callbacks, now, cfgs, config, pendingRemovals, monitors, budget, urls>>

PreState(u) == IF u \in DOMAIN servers THEN servers[u].CircuitBreaker.State ELSE "absent"

\* proxy.ModifyResponse: the backend answered with a status.  The hook returns
\* nil, so the response goes to the client as it is.
ModifyResponse(r, status) ==
    /\ req[r].pc = "forward"
    /\ NoReaders
    /\ LET u  == URLOf(req[r].server)
           success == status < 500
           up == UpdateStats(servers, conns, u, success, now)
       IN  /\ servers' = up.servers
           /\ conns' = up.conns
           /\ Observe(up.servers, u, success)
           /\ last' = [Event("UpdateStats", u, success, PreState(u)) EXCEPT !.status = status]
    /\ req' = [req EXCEPT ![r] = IdleReq]
    /\ UNCHANGED <<parts, callbacks, now, cfgs, config, pendingRemovals, monitors, budget, urls>>

\* proxy.ErrorHandler: the round trip ended with the transport error err.
ErrorHandler(r, err) ==
    /\ req[r].pc = "forward"
    /\ NoReaders
    /\ LET u  == URLOf(req[r].server)
           up == UpdateStats(servers, conns, u, FALSE, now)
           e  == [Event("UpdateStats", u, FALSE, PreState(u)) EXCEPT !.err = err]
       IN  /\ servers' = up.servers
           /\ conns' = up.conns
           /\ Observe(up.servers, u, FALSE)
           /\ IF shouldRetry(err) /\ config # 0 /\ cfgs[config].Backends > 0
              THEN /\ req' = [req EXCEPT ![r] = [IdleReq EXCEPT !.pc = "retry_select",
                                                                !.cfg = config, !.first = u]]
                   /\ last' = e
              ELSE /\ req' = [req EXCEPT ![r] = IdleReq]
                   /\ last' = Unavailable(e)
    /\ UNCHANGED <<parts, callbacks, now, cfgs, config, pendingRemovals, monitors, budget, urls>>

\* retryProxy.ServeHTTP ends.  The retry proxy has no hooks: a response goes to
\* the client as it is (err = NoError), and after a transport error the default
\* error handler of httputil.ReverseProxy answers 502 Bad Gateway.
RetryProxyDone(r, status, err) ==
    /\ req[r].pc = "retry_forward"
    /\ req' = [req EXCEPT ![r] = IdleReq]
    /\ last' = [Event("retryProxy", URLOf(req[r].server), err = NoError, "")
                   EXCEPT !.status = IF err = NoError THEN status ELSE 502]
    /\ UNCHANGED <<parts, callbacks, now, cfgs, config, servers, conns, pendingRemovals, monitors, budget,
                   urls, cur, hist>>

\* ProxyServiceImpl.UpdateConfig (takes p.mu, not eb.mu).
UpdateConfig(roster) ==
    /\ budget.upd > 0
    /\ RosterURLs(roster) \subseteq urls
    /\ budget' = [budget EXCEPT !.upd = @ - 1]
    /\ cfgs' = Append(cfgs, Config(roster))
    /\ config' = Len(cfgs) + 1
    /\ LET up == UpdateServers(servers, conns, Held, Len(cfgs) + 1, roster)
       IN  /\ servers' = up.servers
           /\ conns' = up.conns
           /\ Observe(up.servers, NoURL, FALSE)
    /\ last' = Event("UpdateConfig", NoURL, TRUE, "")
    /\ UNCHANGED <<parts, callbacks, now, req, pendingRemovals, monitors, urls>>

Without(f, u) == [x \in (DOMAIN f) \ {u} |-> f[x]]

\* Faulty variant of DrainOver: the first check ends the drain.
DrainOverAtOnce(removal, cn, t) == TRUE

\* Faulty variant of DrainOver: the deadline is not looked at.
DrainOverWhenIdle(removal, cn, t) == cn[removal.ConnectionCount] = 0

\* The test of checkAndFinalizeDrain at a tick of second t.  The ticker of the
\* drain is made after StartTime was read and ticks a whole number of seconds
\* later, so the tick of second DrainDeadline reads a clock after the deadline.
DrainOver(removal, cn, t) ==
    cn[removal.ConnectionCount] = 0 \/ t >= removal.DrainDeadline

\* A tick of a monitorDraining goroutine of u at second t would end the goroutine.
TickEnds(u, t) ==
    IF u \in DOMAIN pendingRemovals THEN DrainOver(pendingRemovals[u], conns, t) ELSE TRUE

\* Time passes.  The monitorDraining goroutines tick every second: no tick that
\* would end a goroutine is skipped.
Tick ==
    /\ budget.tick > 0
    /\ \A u \in URLs : monitors[u] > 0 =>
           \A t \in now..(now + TickStep - 1) : ~TickEnds(u, t)
    /\ budget' = [budget EXCEPT !.tick = @ - 1]
    /\ now' = now + TickStep
    /\ last' = Event("Tick", NoURL, TRUE, "")
    /\ UNCHANGED <<parts, callbacks, cfgs, config, servers, conns, req, pendingRemovals, monitors,
                   urls, cur, hist>>

-----------------------------------------------------------------------------
(* ServerLifecycle.  NewServerLifecycle leaves both callbacks nil;            *)
(* SetCallbacks installs them.  A call of a callback is counted per URL.     *)

\* SetCallbacks(onRemoved, onDrained): TRUE stands for a function, FALSE for nil.
SetCallbacks(cb, onRemoved, onDrained) ==
    [cb EXCEPT !.onServerRemoved = onRemoved, !.onServerDrained = onDrained]

\* go sl.onServerDrained(u) and go sl.onServerRemoved(u), each if it is not nil.
FireDrained(cb, u) ==
    IF cb.onServerDrained THEN [cb EXCEPT !.drained[u] = @ + 1] ELSE cb

FireRemoved(cb, u) ==
    IF cb.onServerRemoved THEN [cb EXCEPT !.removed[u] = @ + 1] ELSE cb

\* Faulty variant of AlreadyDraining: a second drain cycle is always accepted.
NeverDraining(pr, u) == FALSE

\* The test StartGracefulRemoval makes before anything else.
AlreadyDraining(pr, u) == u \in DOMAIN pr

\* StartGracefulRemoval(server, connectionCount), called with the Server and the
\* in-flight counter the Registry holds for u.  A call for a URL that is already
\* draining returns at once.
StartGracefulRemoval(u) ==
    /\ u \in DOMAIN servers
    /\ IF AlreadyDraining(pendingRemovals, u)
       THEN /\ last' = Event("StartGracefulRemoval", u, FALSE, "draining")
            /\ UNCHANGED <<cfgs, pendingRemovals, monitors, budget>>
       ELSE /\ budget.rem > 0
            /\ budget' = [budget EXCEPT !.rem = @ - 1]
            /\ LET ptr == servers[u].Server
                   new == [Server          |-> ptr,
                           StartTime       |-> now,
                           DrainDeadline   |-> now + DrainTimeout,
                           ConnectionCount |-> servers[u].id]
               IN  /\ pendingRemovals' = [x \in (DOMAIN pendingRemovals) \cup {u} |->
                                             IF x = u THEN new ELSE pendingRemovals[x]]
                   /\ cfgs' = [cfgs EXCEPT ![ptr.cfg].Servers[ptr.idx].Active = FALSE]
            /\ monitors' = [monitors EXCEPT ![u] = @ + 1]
            /\ last' = Event("StartGracefulRemoval", u, TRUE, "")
    /\ UNCHANGED <<parts, callbacks, now, config, servers, conns, req, urls, cur, hist>>

\* One tick of a monitorDraining goroutine of u that ends the goroutine: the
\* removal is gone, or the drain is complete or timed out.  A tick that finds
\* connections left before the deadline changes nothing (a stuttering step).
checkAndFinalizeDrain(u) ==
    /\ monitors[u] > 0
    /\ TickEnds(u, now)
    /\ IF u \notin DOMAIN pendingRemovals
       THEN /\ UNCHANGED <<pendingRemovals, callbacks>>
            /\ last' = Event("checkAndFinalizeDrain", u, TRUE, "gone")
       ELSE /\ pendingRemovals' = Without(pendingRemovals, u)
            /\ callbacks' = FireRemoved(FireDrained(callbacks, u), u)
            /\ last' = Event("checkAndFinalizeDrain", u, TRUE, "drained")
    /\ monitors' = [monitors EXCEPT ![u] = @ - 1]
    /\ UNCHANGED <<parts, now, cfgs, config, servers, conns, req, budget, urls, cur, hist>>

\* Faulty variant of Reactivate: the server is left inactive.
ReactivateNot(cf, ptr) == cf

\* removal.Server.Active = true
Reactivate(cf, ptr) == [cf EXCEPT ![ptr.cfg].Servers[ptr.idx].Active = TRUE]

\* CancelRemoval(u): true for a draining URL, false and no change for any other.
CancelRemoval(u) ==
    /\ IF u \in DOMAIN pendingRemovals
       THEN /\ cfgs' = Reactivate(cfgs, pendingRemovals[u].Server)
            /\ pendingRemovals' = Without(pendingRemovals, u)
            /\ last' = Event("CancelRemoval", u, TRUE, "")
       ELSE /\ u \in DOMAIN servers
            /\ last' = Event("CancelRemoval", u, FALSE, "")
            /\ UNCHANGED <<cfgs, pendingRemovals>>
    /\ UNCHANGED <<parts, callbacks, now, config, servers, conns, req, monitors, budget,
                   urls, cur, hist>>

\* ForceRemoval of a draining URL (for any other URL it changes nothing).
ForceRemoval(u) ==
    /\ u \in DOMAIN pendingRemovals
    /\ pendingRemovals' = Without(pendingRemovals, u)
    /\ callbacks' = FireRemoved(callbacks, u)
    /\ last' = Event("ForceRemoval", u, TRUE, "")
    /\ UNCHANGED <<parts, now, cfgs, config, servers, conns, req, monitors, budget, urls,
                   cur, hist>>

-----------------------------------------------------------------------------
(* Specifications *)

\* NewServerLifecycle leaves both callbacks nil; no callback was called yet.
NoCallbacks ==
    [onServerRemoved |-> FALSE, onServerDrained |-> FALSE,
     removed |-> [u \in URLs |-> 0], drained |-> [u \in URLs |-> 0]]

\* NewConsistentHashRing: an empty ring.  hash is the digest function (a function
\* of the key), pending the server a caller of SelectServer was given and has not
\* reported on, home the server each client was last given.
NoRing ==
    [hash |-> <<>>, ring |-> <<>>, sortedHashes |-> <<>>, servers |-> {},
     pending |-> NoURL, home |-> <<>>]

\* No request: the header map has neither key (Header is a map from a key to the
\* list of its values), and no identity has been derived. Go strings are
\* sequences of one-character strings.
NoRequest ==
    [XForwardedFor |-> <<>>, XRealIP |-> <<>>, RemoteAddr |-> <<>>, clientIP |-> <<>>]

\* The AdaptiveController of NewEnterpriseBalancer: "adaptive_weighted" is the
\* current algorithm, no score is stored (a missing key reads 0.0), lastSwitch is
\* the zero time; no server, no goroutine in selectOptimalAlgorithm.
NoController ==
    [currentAlgorithm |-> "adaptive_weighted",
     algorithmScores  |-> <<>>,
     lastSwitch       |-> ZeroTime,
     lock             |-> 0,
     load             |-> <<>>,
     g                |-> <<>>,
     calls            |-> 0,
     evaluatedAt      |-> ZeroTime]

\* NewProxyService: no request counted, no snapshot taken.
NoMetrics ==
    [requestCount |-> 0, RequestsPerSecond |-> 0, TotalRequests |-> 0,
     g |-> <<>>, received |-> 0, reported |-> 0, calls |-> 0]

\* NewProxyService: no session, no configuration, no HealthChecker started.
NoSessions ==
    [config |-> 0, cfgs |-> <<>>, sessions |-> <<>>, checked |-> 0,
     calls |-> [req |-> 0, upd |-> 0, check |-> 0]]

\* NewConfigAPI before a configuration is loaded.
NoAPI ==
    [arr |-> <<>>, len |-> 0, MinServers |-> 0, MaxServers |-> 0, h |-> <<>>, calls |-> 0]

\* No UpdateConfig is running.
NoUpsert == [pc |-> "idle", cfg |-> 0]

\* No RingBuffer made.
NoRingBuffer ==
    [heap |-> <<>>, buffer |-> 0, size |-> 0, index |-> 0, full |-> FALSE,
     added |-> <<>>, returned |-> <<>>]

\* No server slice handed to the round robin.
NoRoundRobin == [lastUpdate |-> ZeroTime, servers |-> <<>>, g |-> <<>>, calls |-> 0]

InitLate ==
    /\ rb = NoRingBuffer
    /\ wrr = NoRoundRobin

\* The components of this part of the model, before any call on them.
InitMore ==
    /\ ctl = NoController
    /\ met = NoMetrics
    /\ sticky = NoSessions
    /\ api = NoAPI
    /\ upsert = NoUpsert
    /\ InitLate

\* The components studied on their own, before any call on them.
InitParts ==
    /\ awrr = [lastUpdate |-> ZeroTime, servers |-> <<>>]
    /\ ring = NoRing
    /\ http = NoRequest
    /\ InitMore

\* After NewEnterpriseBalancer, NewProxyService and NewServerLifecycle.
InitCommon ==
    /\ InitParts
    /\ callbacks = NoCallbacks
    /\ now = 0
    /\ req = [r \in Requests |-> IdleReq]
    /\ pendingRemovals = <<>>
    /\ monitors = [u \in URLs |-> 0]
    /\ last = Event("init", NoURL, TRUE, "")
    /\ cur = [u \in URLs |-> FreshObs]
    /\ hist = [u \in URLs |-> FreshObs]

Init ==
    /\ InitCommon
    /\ cfgs = <<>>
    /\ config = 0
    /\ servers = <<>>
    /\ conns = <<>>
    /\ urls = URLs
    /\ budget = [req |-> MaxRequests, par |-> NumRequests, upd |-> MaxUpdates,
                 rem |-> MaxRemovals, tick |-> MaxTicks]

Next ==
    \/ \E r \in Requests : ServeHTTP(r)
    \/ \E r \in Requests : SelectLock(r)
    \/ \E r \in Requests : SelectPick(r)
    \/ \E r \in Requests : SelectReturn(r)
    \/ \E r \in Requests, status \in Statuses : ModifyResponse(r, status)
    \/ \E r \in Requests, err \in TransportErrors : ErrorHandler(r, err)
    \/ \E r \in Requests, status \in Statuses, err \in {NoError} \cup TransportErrors :
           RetryProxyDone(r, status, err)
    \/ \E roster \in Rosters : UpdateConfig(roster)
    \/ Tick

Spec == Init /\ [][Next]_vars

\* The same deployment once main has loaded a two-server configuration, with the
\* Lifecycle Manager driven on the Registry's servers.
InitDrain ==
    /\ InitCommon
    /\ cfgs = <<Config(<<Server("u1", 2, 1), Server("u2", 1, 2)>>)>>
    /\ config = 1
    /\ servers = UpdateServers(<<>>, <<>>, {}, 1, cfgs[1].Servers).servers
    /\ conns = UpdateServers(<<>>, <<>>, {}, 1, cfgs[1].Servers).conns
    /\ urls = URLs
    /\ budget = [req |-> MaxRequests, par |-> NumRequests, upd |-> 0,
                 rem |-> MaxRemovals, tick |-> MaxTicks]

NextDrain ==
    \/ \E r \in Requests : ServeHTTP(r)
    \/ \E r \in Requests : SelectLock(r)
    \/ \E r \in Requests : SelectPick(r)
    \/ \E r \in Requests : SelectReturn(r)
    \/ \E r \in Requests, status \in Statuses : ModifyResponse(r, status)
    \/ \E r \in Requests, err \in TransportErrors : ErrorHandler(r, err)
    \/ \E r \in Requests, status \in Statuses, err \in {NoError} \cup TransportErrors :
           RetryProxyDone(r, status, err)
    \/ Tick
    \/ \E u \in URLs : StartGracefulRemoval(u)
    \/ \E u \in URLs : checkAndFinalizeDrain(u)
    \/ \E u \in URLs : CancelRemoval(u)
    \/ \E u \in URLs : ForceRemoval(u)

SpecDrain == InitDrain /\ [][NextDrain]_vars

\* The Registry and the observations after k more requests were selected and
\* failed one after the other (SelectServer, then the ErrorHandler with an error
\* that is not retried), all at time 0.
RECURSIVE AfterFailures(_, _, _, _)
AfterFailures(svs, cn, obs, k) ==
    IF k = 0 THEN [servers |-> svs, conns |-> cn, obs |-> obs]
    ELSE LET sel == [svs EXCEPT !["u1"].Metrics.RequestCount = @ + 1]
             up  == UpdateStats(sel, [cn EXCEPT ![sel["u1"].id] = @ + 1], "u1", FALSE, 0)
         IN  AfterFailures(up.servers, up.conns,
                           ObserveOne(obs, sel, up.servers, "u1", "u1", FALSE, 0, TRUE), k - 1)

\* A deployment with the single server u1: main has loaded its configuration
\* (UpdateConfig on the empty Registry) and PriorFailures requests have failed, so
\* that the remaining request budget lets the breaker open, probe and close.  Two
\* environments are explored: concurrent requests on a roster that stays, and
\* requests one at a time around changes of the configuration.
InitBreaker ==
    /\ InitParts
    /\ callbacks = NoCallbacks
    /\ now = 0
    /\ req = [r \in Requests |-> IdleReq]
    /\ pendingRemovals = <<>>
    /\ monitors = [u \in URLs |-> 0]
    /\ cfgs = <<Config(<<Server("u1", 1, 1)>>)>>
    /\ config = 1
    /\ urls = {"u1"}
    /\ LET up == UpdateServers(<<>>, <<>>, {}, 1, <<Server("u1", 1, 1)>>)
           st == AfterFailures(up.servers, up.conns, FreshObs, PriorFailures)
       IN  /\ servers = st.servers
           /\ conns = st.conns
           /\ cur = [u \in URLs |-> IF u = "u1" THEN st.obs ELSE FreshObs]
           /\ hist = [u \in URLs |-> IF u = "u1" THEN st.obs ELSE FreshObs]
    /\ last = Unavailable([Event("UpdateStats", "u1", FALSE, "Closed") EXCEPT !.err = UnexpectedEOF])
    /\ budget \in {[req |-> BreakerRequests, par |-> NumRequests, upd |-> 0,
                    rem |-> 0, tick |-> BreakerTicks],
                   [req |-> BreakerRequests, par |-> 1, upd |-> BreakerUpdates,
                    rem |-> 0, tick |-> BreakerTicks]}

\* With u1 the only URL a retry always finds the server that just failed (or
\* none), so retryProxy never forwards and RetryProxyDone is never enabled.
NextBreaker ==
    \/ \E r \in Requests : ServeHTTP(r)
    \/ \E r \in Requests : SelectLock(r)
    \/ \E r \in Requests : SelectPick(r)
    \/ \E r \in Requests : SelectReturn(r)
    \/ \E r \in Requests, status \in Statuses : ModifyResponse(r, status)
    \/ \E r \in Requests, err \in TransportErrors : ErrorHandler(r, err)
    \/ \E roster \in Rosters : UpdateConfig(roster)
    \/ Tick

SpecBreaker == InitBreaker /\ [][NextBreaker]_vars

-----------------------------------------------------------------------------
(* Properties *)

\* The roster the operator installed has not been replaced since.
FixedRoster == Len(cfgs) <= 1

\* The requests being forwarded to URL u (by the proxy or by the retry proxy).
InFlight(u) ==
    {r \in Requests : req[r].pc \in {"forward", "retry_forward"} /\ URLOf(req[r].server) = u}

\* C1 (P1, in-flight never drifts): on a fixed roster every server's
\* active-connection count equals the number of requests in flight on it, in
\* particular 0 when none is in flight.  Violated: see C2.
InFlightNeverDrifts ==
    FixedRoster =>
        \A u \in DOMAIN servers : conns[servers[u].id] = Cardinality(InFlight(u))

\* C2: every SelectServer call that returned a server is followed by exactly one
\* decrement (one UpdateStats), on every forwarding path.  Stated on finished
\* runs: once no request is left, each server on a fixed roster has had as many
\* outcomes recorded as selections counted.  Violated by the retry path.
Quiescent == \A r \in Requests : req[r].pc = "idle"

EverySelectionDecremented ==
    (FixedRoster /\ Quiescent) =>
        \A u \in DOMAIN servers :
            servers[u].Metrics.RequestCount = servers[u].Metrics.ResponseTimes

\* What C3 asks of the observations obs: a URL with FailureThreshold or more
\* consecutive failed outcomes, whose breaker opened no more than RecoveryTimeout
\* ago, has its breaker Open and is not what SelectServer just returned.
HeldOpen(obs) ==
    \A u \in URLs :
        (/\ obs[u].streak >= FailureThreshold
         /\ obs[u].openedAt = ZeroTime \/ now <= obs[u].openedAt + RecoveryTimeout)
        => /\ u \in DOMAIN servers => servers[u].CircuitBreaker.State = "Open"
           /\ ~(last.op = "SelectServer" /\ last.url = u)

\* C3 (P2) as stated, for the server named by its URL: after 10 or more
\* consecutive failed outcomes recorded for URL S its breaker is Open and Select
\* does not return S until 30 s after the breaker last opened.
OpenAfterFailuresOfURL == HeldOpen(hist)

\* C3 (P2) amended: the same, counting the outcomes recorded since the
\* ServerState of S was created -- removing S from the roster and adding it again
\* yields a new ServerState with a Closed breaker.
OpenAfterFailuresOfState == HeldOpen(cur)

\* C3 witness: the breaker of u1 opened less than 30 s ago after 10 consecutive
\* failures, time has advanced, and a Select has just returned none.
SelectRefusedWhileOpen ==
    /\ "u1" \in DOMAIN servers
    /\ servers["u1"].CircuitBreaker.State = "Open"
    /\ cur["u1"].streak >= FailureThreshold
    /\ now > cur["u1"].openedAt
    /\ now <= cur["u1"].openedAt + RecoveryTimeout
    /\ last.op = "SelectServer" /\ last.url = NoURL

\* The step just taken recorded an outcome (ok) for u while its breaker was in
\* state pre.
Recorded(u, ok, pre) ==
    last.op = "UpdateStats" /\ last.url = u /\ last.ok = ok /\ last.pre = pre

\* C4 (P3): a success recorded while the breaker is HalfOpen closes it and zeroes
\* its failure count iff it is the 5th success recorded since the breaker entered
\* HalfOpen; with fewer the breaker stays HalfOpen.  Successes recorded while
\* Closed or Open are not counted.
FifthHalfOpenSuccessCloses ==
    \A u \in DOMAIN servers :
        Recorded(u, TRUE, "HalfOpen") =>
            IF cur[u].hoSucc >= HalfOpenSuccesses
            THEN /\ servers[u].CircuitBreaker.State = "Closed"
                 /\ servers[u].CircuitBreaker.FailureCount = 0
            ELSE servers[u].CircuitBreaker.State = "HalfOpen"

\* C4 witness: the 5th half-open success has just closed the breaker of u1, which
\* has recorded a success outside HalfOpen as well.
ClosedByFifthSuccess ==
    /\ "u1" \in DOMAIN servers
    /\ Recorded("u1", TRUE, "HalfOpen")
    /\ cur["u1"].hoSucc = HalfOpenSuccesses
    /\ servers["u1"].CircuitBreaker.State = "Closed"
    /\ servers["u1"].Metrics.SuccessCount > HalfOpenSuccesses

\* C5: while a ServerState exists its breaker changes only Closed->Open,
\* Open->HalfOpen (and only after the next-retry time), HalfOpen->Closed and
\* HalfOpen->Open, whatever step is taken.
BreakerTransitionsLegal ==
    [][\A u \in URLs :
          SameState(servers, servers', u) =>
              LET a == servers[u].CircuitBreaker.State
                  b == servers'[u].CircuitBreaker.State
              IN  \/ a = b
                  \/ a = "Closed" /\ b = "Open"
                  \/ a = "Open" /\ b = "HalfOpen" /\ now > servers[u].CircuitBreaker.NextRetryTime
                  \/ a = "HalfOpen" /\ b \in {"Closed", "Open"}]_vars

\* C5 witness: the breaker of u1 is Closed again after having been Open, and an
\* outcome was recorded while it was Open.
ClosedAfterOpen ==
    /\ "u1" \in DOMAIN servers
    /\ servers["u1"].CircuitBreaker.State = "Closed"
    /\ cur["u1"].openedAt # ZeroTime
    /\ servers["u1"].Metrics.SuccessCount > cur["u1"].hoSucc

\* C6: a failure recorded while the breaker is HalfOpen leaves it Open with
\* next-retry time now + RecoveryTimeout, however many half-open successes came
\* before.
HalfOpenFailureReopens ==
    \A u \in DOMAIN servers :
        Recorded(u, FALSE, "HalfOpen") =>
            /\ servers[u].CircuitBreaker.State = "Open"
            /\ servers[u].CircuitBreaker.NextRetryTime = now + RecoveryTimeout

\* C6 witness: the first failure since u1's breaker entered HalfOpen, recorded
\* after some half-open successes, has reopened it.
ReopenedFromHalfOpen ==
    /\ "u1" \in DOMAIN servers
    /\ Recorded("u1", FALSE, "HalfOpen")
    /\ cur["u1"].hoSucc >= 1
    /\ servers["u1"].CircuitBreaker.State = "Open"

\* C7: SelectServer never returns a server whose Active flag is false (the flag
\* StartGracefulRemoval clears until CancelRemoval sets it again).
SelectReturnsOnlyActive ==
    (last.op = "SelectServer" /\ last.url # NoURL) => last.ok

\* C8: the algorithm is offered, and SelectServer returns, only servers whose
\* in-flight count is strictly below the max_connections configured for them, and
\* no server's in-flight count ever exceeds that maximum.
InFlightWithinConfiguredMax ==
    \A u \in DOMAIN servers :
        /\ (last.op = "algorithm" /\ last.url = u) =>
               conns[servers[u].id] < Deref(servers[u].Server).MaxConnections
        /\ conns[servers[u].id] <= Deref(servers[u].Server).MaxConnections

\* A ServerState as Upsert creates it.
IsNew(state, inflight) ==
    /\ state.HealthState = "Healthy"
    /\ state.CircuitBreaker.State = "Closed"
    /\ state.CircuitBreaker.FailureCount = 0
    /\ state.CircuitBreaker.SuccessCount = 0
    /\ state.Metrics = [RequestCount |-> 0, SuccessCount |-> 0,
                        FailureCount |-> 0, ResponseTimes |-> 0]
    /\ state.ConsecutiveFails = 0
    /\ inflight = 0

\* The step is UpdateConfig, which calls UpdateServers with the new roster.
IsUpdateConfig == config' # config

\* The step is the first critical section of request r's SelectServer, which
\* calls UpdateServers with the roster of r's configuration.
IsSelectLock(r) ==
    req[r].pc \in {"select", "retry_select"} /\ req'[r].pc \in {"rlock", "retry_rlock"}

\* The postcondition of Upsert(roster) on the step just taken.
UpsertPost(roster) ==
    /\ DOMAIN servers' = RosterURLs(roster)
    /\ \A u \in (DOMAIN servers') \ (DOMAIN servers) :
           IsNew(servers'[u], conns'[servers'[u].id])
    /\ \A i \in 1..Len(roster) : servers'[roster[i].URL].Weight = roster[i].Weight
    /\ DOMAIN GetServerMetrics' = RosterURLs(roster)
    /\ \A u \in DOMAIN GetServerMetrics' : GetServerMetrics'[u].URL = u

UpsertFrame(roster) ==
    \A u \in (DOMAIN servers) \cap RosterURLs(roster) :
        /\ u \in DOMAIN servers'
        /\ servers'[u].Metrics = servers[u].Metrics
        /\ conns'[servers'[u].id] = conns[servers[u].id]
        /\ servers'[u].HealthState = servers[u].HealthState
        /\ servers'[u].ConsecutiveFails = servers[u].ConsecutiveFails
        /\ servers'[u].CircuitBreaker.State = servers[u].CircuitBreaker.State
        /\ servers'[u].CircuitBreaker.FailureCount = servers[u].CircuitBreaker.FailureCount
        /\ servers'[u].CircuitBreaker.NextRetryTime = servers[u].CircuitBreaker.NextRetryTime

-----------------------------------------------------------------------------
(* Upsert as a function of the Registry *)

\* The deployment of two servers after k requests to u1 failed (k up to
\* UpsertFailures, so that u1 is Healthy, Degraded or Unhealthy and its breaker
\* Closed or Open), seen at once or after a SelectServer call made once the
\* recovery timeout had passed (breaker HalfOpen); the operator then changes the
\* configuration.
InitUpsert ==
    /\ InitParts
    /\ callbacks = NoCallbacks
    /\ req = [r \in Requests |-> IdleReq]
    /\ pendingRemovals = <<>>
    /\ monitors = [u \in URLs |-> 0]
    /\ cfgs = <<Config(<<Server("u1", 2, 1), Server("u2", 1, 2)>>)>>
    /\ config = 1
    /\ urls = URLs
    /\ \E k \in 0..UpsertFailures, probed \in BOOLEAN :
           LET up == UpdateServers(<<>>, <<>>, {}, 1, cfgs[1].Servers)
               st == AfterFailures(up.servers, up.conns, FreshObs, k)
               t  == IF probed THEN RecoveryTimeout + 1 ELSE 0
               av == IF probed THEN getAvailableServers(st.servers, st.conns, t).servers
                     ELSE st.servers
               ob == ObserveOne(st.obs, st.servers, av, "u1", NoURL, FALSE, t, TRUE)
           IN  /\ now = t
               /\ servers = av
               /\ conns = st.conns
               /\ cur = [u \in URLs |-> IF u = "u1" THEN ob ELSE FreshObs]
               /\ hist = [u \in URLs |-> IF u = "u1" THEN ob ELSE FreshObs]
    /\ last = Event("init", NoURL, TRUE, "")
    /\ budget = [req |-> 0, par |-> 0, upd |-> MaxUpdates, rem |-> 0, tick |-> 0]

NextUpsert == \E roster \in Rosters : UpdateConfig(roster)

SpecUpsert == InitUpsert /\ [][NextUpsert]_vars

\* The roster left when the servers with a URL in B are taken out of roster.
RemoveURLs(roster, B) == SelectSeq(roster, LAMBDA s : s.URL \notin B)

\* UpdateServers(roster) applied to the Registry reg = [servers, conns].
Upsert(reg, roster) == UpdateServers(reg.servers, reg.conns, Held, Len(cfgs) + 1, roster)

\* What P6 compares of a Registry: URL set, weights, health and breaker state.
RegistryView(reg) ==
    [u \in DOMAIN reg.servers |->
        [Weight  |-> reg.servers[u].Weight,
         Health  |-> reg.servers[u].HealthState,
         Breaker |-> [State         |-> reg.servers[u].CircuitBreaker.State,
                      FailureCount  |-> reg.servers[u].CircuitBreaker.FailureCount,
                      NextRetryTime |-> reg.servers[u].CircuitBreaker.NextRetryTime]]]

Registry == [servers |-> servers, conns |-> conns]

\* The rosters that add servers to the Registry's (they list every URL it holds).
Extensions == {R \in Rosters : DOMAIN servers \subseteq RosterURLs(R)}

\* C11 (P6): from the current Registry, Upsert of an extended roster R followed by
\* Upsert of R without the URLs of B gives the same URL set, weights, health and
\* breaker state as the single Upsert of R without B; and Upsert(R) applied twice
\* gives what Upsert(R) gives, whatever roster R is.
UpsertCompositional ==
    /\ \A R \in Extensions : \A B \in SUBSET URLs :
           RegistryView(Upsert(Upsert(Registry, R), RemoveURLs(R, B)))
               = RegistryView(Upsert(Registry, RemoveURLs(R, B)))
    /\ \A R \in Rosters :
           RegistryView(Upsert(Upsert(Registry, R), R)) = RegistryView(Upsert(Registry, R))

\* C11 witness: u1 is in the Registry with an Open breaker; adding u2 with a new
\* weight for u1 and then removing u2 leaves u1 alone, Open, with the new weight.
UpsertDeltasOnOpenBreaker ==
    /\ "u1" \in DOMAIN servers
    /\ servers["u1"].CircuitBreaker.State = "Open"
    /\ LET R == <<Server("u1", 2, 1), Server("u2", 1, 2)>>
           r == Upsert(Upsert(Registry, R), RemoveURLs(R, {"u2"})).servers
       IN  /\ DOMAIN Upsert(Registry, R).servers = {"u1", "u2"}
           /\ DOMAIN r = {"u1"}
           /\ r["u1"].CircuitBreaker.State = "Open"
           /\ r["u1"].Weight = 2

-----------------------------------------------------------------------------
(* AdaptiveWeightedRoundRobin (internal/infrastructure/algorithms.go).       *)
(* float64 weights and factors are kept in thousandths.                      *)

MaxWeight == 3
MaxPoolSize == 3
MaxBlocks == 2

Milli == 1000
WeightUpdatePeriod == 5
MinEffectiveWeight == 100

Max(a, b) == IF a >= b THEN a ELSE b

PoolURLs == {"u1", "u2", "u3"}

\* The sequences that list every element of S once: the orders in which a slice
\* built by ranging over a map can hold S.
Orders(S) == {o \in [1..Cardinality(S) -> S] : \A i, j \in DOMAIN o : o[i] = o[j] => i = j}

\* What the algorithm reads and writes of a ServerState as UpdateServers makes
\* it for a server of weight w (ErrorRate in thousandths, P95ResponseTime in
\* milliseconds), and how often the algorithm returned it.
PoolState(w) ==
    [Weight |-> w * Milli, EffectiveWeight |-> w * Milli, CurrentWeight |-> 0,
     ErrorRate |-> 0, P95ResponseTime |-> 0, ActiveConns |-> 0,
     HealthState |-> "Healthy", picks |-> 0]

HealthFactor(h) ==
    CASE h = "Healthy"    -> 1000
      [] h = "Degraded"   -> 700
      [] h = "Recovering" -> 500
      [] h = "Unhealthy"  -> 100

\* x times the factor f, a number of thousandths.
Scaled(x, f) == (x * f) \div Milli

\* The effective weight UpdateWeights computes for one server.
AdaptedWeight(s) ==
    LET errorFactor    == IF s.ErrorRate > 0
                          THEN Max(100, 1000 - 2 * s.ErrorRate) ELSE 1000
        responseFactor == IF s.P95ResponseTime > 0
                          THEN IF s.P95ResponseTime > 100
                               THEN Max(100, (100 * 1000) \div s.P95ResponseTime)
                               ELSE 1200
                          ELSE 1000
        connFactor     == IF s.ActiveConns > 0
                          THEN Max(100, 1000 - ((s.ActiveConns * 1000) \div PoolMaxConnections))
                          ELSE 1000
        product        == Scaled(Scaled(Scaled(Scaled(s.Weight, errorFactor),
                                                 responseFactor), connFactor),
                                 HealthFactor(s.HealthState))
    IN  Max(MinEffectiveWeight, product)

\* AdaptiveWeightedRoundRobin.UpdateWeights at time t on the servers listed.
UpdateWeights(a, list, t) ==
    IF t - a.lastUpdate < WeightUpdatePeriod THEN a
    ELSE [a EXCEPT !.lastUpdate = t,
                   !.servers = [u \in DOMAIN a.servers |->
                                   IF \E i \in DOMAIN list : list[i] = u
                                   THEN [a.servers[u] EXCEPT !.EffectiveWeight =
                                                                 AdaptedWeight(a.servers[u])]
                                   ELSE a.servers[u]]]

\* The loop of SelectServer from element i of the slice on: svs are the servers,
\* selected the URL of the best one so far (NoURL for nil).
RECURSIVE AWRRLoop(_, _, _, _, _)
AWRRLoop(svs, list, i, selected, totalWeight) ==
    IF i > Len(list)
    THEN [servers |-> svs, selected |-> selected, totalWeight |-> totalWeight]
    ELSE LET u   == list[i]
             nxt == [svs EXCEPT ![u].CurrentWeight = @ + svs[u].EffectiveWeight]
             sel == IF selected = NoURL
                       \/ nxt[u].CurrentWeight > nxt[selected].CurrentWeight
                    THEN u ELSE selected
         IN  AWRRLoop(nxt, list, i + 1, sel, totalWeight + svs[u].EffectiveWeight)

\* Faulty variant of AWRRSettle: the winner gives back its own weight only.
AWRRSettleOwnWeight(svs, selected, totalWeight) ==
    IF selected = NoURL THEN svs
    ELSE [svs EXCEPT ![selected].CurrentWeight = @ - svs[selected].EffectiveWeight]

\* The end of SelectServer: the winner gives back the total weight.
AWRRSettle(svs, selected, totalWeight) ==
    IF selected = NoURL THEN svs
    ELSE [svs EXCEPT ![selected].CurrentWeight = @ - totalWeight]

TotalPicks == awrr.servers["u1"].picks + awrr.servers["u2"].picks
                  + (IF "u3" \in DOMAIN awrr.servers THEN awrr.servers["u3"].picks ELSE 0)

TotalWeight == awrr.servers["u1"].Weight + awrr.servers["u2"].Weight
                   + (IF "u3" \in DOMAIN awrr.servers THEN awrr.servers["u3"].Weight ELSE 0)

\* AdaptiveWeightedRoundRobin.SelectServer(servers, clientIP) on the slice list.
AWRRSelectServer(list) ==
    /\ Len(list) > 0
    /\ TotalPicks * Milli < MaxBlocks * TotalWeight
    /\ LET a   == UpdateWeights(awrr, list, now)
           res == AWRRLoop(a.servers, list, 1, NoURL, 0)
           svs == AWRRSettle(res.servers, res.selected, res.totalWeight)
       IN  /\ awrr' = [a EXCEPT !.servers = [svs EXCEPT ![res.selected].picks = @ + 1]]
           /\ last' = Event("AWRR.SelectServer", res.selected, TRUE, "")
    /\ UNCHANGED <<now, cfgs, config, servers, conns, req, pendingRemovals, monitors,
                   budget, urls, cur, hist, callbacks, ring, http, more>>

\* A new AdaptiveWeightedRoundRobin and two or three servers as UpdateServers
\* makes them, with weights from 1 to MaxWeight.
InitAWRR ==
    /\ now = 0
    /\ cfgs = <<>>
    /\ config = 0
    /\ servers = <<>>
    /\ conns = <<>>
    /\ req = [r \in Requests |-> IdleReq]
    /\ pendingRemovals = <<>>
    /\ monitors = [u \in URLs |-> 0]
    /\ budget = [req |-> 0, par |-> 0, upd |-> 0, rem |-> 0, tick |-> 0]
    /\ urls = URLs
    /\ last = Event("init", NoURL, TRUE, "")
    /\ cur = [u \in URLs |-> FreshObs]
    /\ hist = [u \in URLs |-> FreshObs]
    /\ callbacks = NoCallbacks
    /\ \E U \in SUBSET PoolURLs : \E w \in [U -> 1..MaxWeight] :
           /\ {"u1", "u2"} \subseteq U
           /\ Cardinality(U) <= MaxPoolSize
           /\ awrr = [lastUpdate |-> ZeroTime, servers |-> [u \in U |-> PoolState(w[u])]]
    /\ ring = NoRing
    /\ http = NoRequest
    /\ InitMore

\* The eligible set is fixed: every call receives all the servers, in any order.
NextAWRR == \E list \in Orders(DOMAIN awrr.servers) : AWRRSelectServer(list)

SpecAWRR == InitAWRR /\ [][NextAWRR]_vars

\* C12 (P4): with constant integer effective weights, after every whole number
\* of blocks of W = w1 + ... + wn selections each server i was picked wi times
\* per block (hence at least once in each block), whatever order the slice had
\* at each call, and all the current weights are back at 0.
AWRRBlocksExact ==
    /\ \A u \in DOMAIN awrr.servers :
           awrr.servers[u].EffectiveWeight = awrr.servers[u].Weight
    /\ (TotalPicks * Milli) % TotalWeight = 0
           => \A u \in DOMAIN awrr.servers :
                  /\ awrr.servers[u].picks * TotalWeight
                         = TotalPicks * awrr.servers[u].Weight
                  /\ awrr.servers[u].picks >= (TotalPicks * Milli) \div TotalWeight
                  /\ awrr.servers[u].CurrentWeight = 0

\* C12 witness: three servers of weights 3, 1 and 1 after two whole blocks of
\* five selections.
AWRRTwoBlocks ==
    /\ DOMAIN awrr.servers = PoolURLs
    /\ awrr.servers["u1"].Weight = 3 * Milli
    /\ awrr.servers["u2"].Weight = Milli
    /\ awrr.servers["u3"].Weight = Milli
    /\ TotalPicks = 10
    /\ awrr.servers["u1"].picks = 6
    /\ awrr.servers["u2"].picks = 2
    /\ awrr.servers["u3"].picks = 2

-----------------------------------------------------------------------------
(* ConsistentHash, ConsistentHashRing and LeastConnections                   *)
(* (internal/infrastructure/algorithms.go), driven through                   *)
(* EnterpriseBalancer.SelectServer and UpdateStats by one caller.            *)

VirtualNodes == 1
HashSpace == 3
HashRequests == 3
HashTicks == 3
ResponseMillis == 50

Clients == {"c1"}

\* The keys the ring hashes: fmt.Sprintf("%s:%d", URL, i) and the client IPs.
VirtualKey(u, i) == u \o ":" \o ToString(i)

HashKeys == {VirtualKey(u, i) : u \in URLs, i \in 0..(VirtualNodes - 1)} \cup Clients

\* s with x inserted before the first element greater than x.
SortedInsert(s, x) ==
    LET k == Cardinality({i \in DOMAIN s : s[i] <= x})
    IN  SubSeq(s, 1, k) \o <<x>> \o SubSeq(s, k + 1, Len(s))

\* ConsistentHashRing.UpdateServers from virtual node i of element n of the slice.
RECURSIVE RingLoop(_, _, _, _)
RingLoop(rg, list, n, i) ==
    IF n > Len(list) THEN rg
    ELSE IF i >= VirtualNodes
         THEN RingLoop(rg, list, n + 1, 0)
         ELSE LET h == rg.hash[VirtualKey(list[n], i)]
              IN  RingLoop([rg EXCEPT !.servers = @ \cup {list[n]},
                                      !.ring = [x \in (DOMAIN @) \cup {h} |->
                                                   IF x = h THEN list[n] ELSE @[x]],
                                      !.sortedHashes = SortedInsert(@, h)],
                           list, n, i + 1)

\* ConsistentHashRing.UpdateServers(servers): the ring is built anew.
RingUpdateServers(rg, list) ==
    RingLoop([rg EXCEPT !.ring = <<>>, !.servers = {}, !.sortedHashes = <<>>], list, 1, 0)

\* ConsistentHashRing.GetServer(key): the URL of the server, NoURL for nil.
GetServer(rg, key) ==
    IF Len(rg.sortedHashes) = 0 THEN NoURL
    ELSE LET hash == rg.hash[key]
             ge   == {i \in DOMAIN rg.sortedHashes : rg.sortedHashes[i] >= hash}
             idx  == IF ge = {} THEN 1 ELSE CHOOSE i \in ge : \A j \in ge : i <= j
         IN  rg.ring[rg.sortedHashes[idx]]

\* The score of LeastConnections as the fraction num / den.  ErrorRate and
\* P95ResponseTime are those updateCalculatedMetrics stored at the last outcome
\* (every response took ResponseMillis); EffectiveWeight is the Weight that
\* UpdateServers stored at the start of this SelectServer.
Score(state, cn) ==
    LET reqs    == state.Metrics.RequestCount
        rated   == state.Metrics.ResponseTimes > 0 /\ reqs > 0
        r       == IF reqs > 0 THEN reqs ELSE 1
        penalty == IF rated THEN 3 * ResponseMillis * state.Weight * r ELSE 0
        errors  == IF rated THEN 10000 * state.Weight * (reqs - state.Metrics.SuccessCount)
                   ELSE 0
    IN  [num |-> 1000 * cn[state.id] * r + penalty + errors,
         den |-> 1000 * state.Weight * r]

\* LeastConnections.SelectServer from element i of the slice on; best is the
\* URL selected so far (NoURL while minScore is MaxFloat64).
RECURSIVE LeastConnectionsLoop(_, _, _, _, _)
LeastConnectionsLoop(svs, cn, list, i, best) ==
    IF i > Len(list) THEN best
    ELSE LET a == Score(svs[list[i]], cn)
             b == IF best = NoURL THEN a ELSE Score(svs[best], cn)
         IN  LeastConnectionsLoop(svs, cn, list, i + 1,
                 IF best = NoURL \/ a.num * b.den < b.num * a.den THEN list[i] ELSE best)

\* The primary server as ConsistentHash.SelectServer accepts it: it is in the
\* slice, not Unhealthy and its breaker not Open (NoURL when it falls through).
PrimaryOf(svs, list, primary) ==
    IF /\ primary # NoURL
       /\ \E i \in DOMAIN list : list[i] = primary
       /\ svs[primary].HealthState # "Unhealthy"
       /\ svs[primary].CircuitBreaker.State # "Open"
    THEN primary ELSE NoURL

\* ConsistentHash.SelectServer(servers, clientIP) on the slice list.
ConsistentHashSelect(rg, svs, cn, list, c) ==
    IF Len(list) = 0 THEN [ring |-> rg, selected |-> NoURL]
    ELSE LET r2 == RingUpdateServers(rg, list)
             p  == PrimaryOf(svs, list, GetServer(r2, c))
         IN  [ring |-> r2,
              selected |-> IF p # NoURL THEN p
                           ELSE LeastConnectionsLoop(svs, cn, list, 1, NoURL)]

\* A server the stability property still speaks of: healthy, breaker not Open.
Steady(state) == state.HealthState = "Healthy" /\ state.CircuitBreaker.State # "Open"

\* EnterpriseBalancer.SelectServer(backend, c) with currentAlgorithm =
\* "consistent_hash", called by a caller that reports every outcome before it
\* selects again.  last.pre is the server c was given before if that server has
\* been healthy with a breaker not Open ever since, last.url the server returned.
EBSelectServer(c) ==
    /\ config # 0
    /\ ring.pending = NoURL
    /\ budget.req > 0
    /\ budget' = [budget EXCEPT !.req = @ - 1]
    /\ LET up == UpdateServers(servers, conns, Held, config, cfgs[config].Servers)
           av == getAvailableServers(up.servers, up.conns, now)
       IN  \E list \in Orders(av.available) :
               LET res == ConsistentHashSelect(ring, av.servers, up.conns, list, c)
                   u   == res.selected
               IN  /\ last' = Event("ConsistentHash.SelectServer", u, u # NoURL, ring.home[c])
                   /\ IF u = NoURL
                      THEN /\ servers' = av.servers
                           /\ conns' = up.conns
                           /\ ring' = res.ring
                      ELSE /\ servers' = [av.servers EXCEPT ![u].Metrics.RequestCount = @ + 1]
                           /\ conns' = [up.conns EXCEPT ![av.servers[u].id] = @ + 1]
                           /\ ring' = [res.ring EXCEPT
                                          !.pending = u,
                                          !.home[c] = IF Steady(av.servers[u]) THEN u ELSE NoURL]
    /\ UNCHANGED <<now, cfgs, config, req, pendingRemovals, monitors, urls, cur, hist,
                   callbacks, awrr, http, more>>

\* EnterpriseBalancer.UpdateStats(server, ResponseMillis, success) for the server
\* last selected.
EBUpdateStats(success) ==
    /\ ring.pending # NoURL
    /\ LET up == UpdateStats(servers, conns, ring.pending, success, now)
       IN  /\ servers' = up.servers
           /\ conns' = up.conns
           /\ ring' = [ring EXCEPT
                          !.pending = NoURL,
                          !.home = [c \in Clients |->
                                       IF ring.home[c] = ring.pending
                                          /\ ~Steady(up.servers[ring.pending])
                                       THEN NoURL ELSE ring.home[c]]]
    /\ last' = Event("EB.UpdateStats", ring.pending, success, "")
    /\ UNCHANGED <<now, cfgs, config, req, pendingRemovals, monitors, budget, urls, cur,
                   hist, callbacks, awrr, http, more>>

\* A balancer switched to consistent hashing over the two-server roster after k
\* requests to u1 failed; the digest of every key is any value of the hash space,
\* the virtual nodes having distinct digests.
InitHash ==
    /\ now = 0
    /\ cfgs = <<Config(<<Server("u1", 2, 1), Server("u2", 1, 2)>>)>>
    /\ config = 1
    /\ \E k \in 0..UpsertFailures :
           LET up == UpdateServers(<<>>, <<>>, {}, 1, cfgs[1].Servers)
               st == AfterFailures(up.servers, up.conns, FreshObs, k)
           IN  servers = st.servers /\ conns = st.conns
    /\ req = [r \in Requests |-> IdleReq]
    /\ pendingRemovals = <<>>
    /\ monitors = [u \in URLs |-> 0]
    /\ budget = [req |-> HashRequests, par |-> 1, upd |-> 0, rem |-> 0, tick |-> HashTicks]
    /\ urls = URLs
    /\ last = Event("init", NoURL, TRUE, "")
    /\ cur = [u \in URLs |-> FreshObs]
    /\ hist = [u \in URLs |-> FreshObs]
    /\ callbacks = NoCallbacks
    /\ awrr = [lastUpdate |-> ZeroTime, servers |-> <<>>]
    /\ \E h \in [HashKeys -> 0..(HashSpace - 1)] :
           /\ \A x, y \in HashKeys \ Clients : h[x] = h[y] => x = y
           /\ ring = [NoRing EXCEPT !.hash = h, !.home = [c \in Clients |-> NoURL]]
    /\ http = NoRequest
    /\ InitMore

NextHash ==
    \/ \E c \in Clients : EBSelectServer(c)
    \/ \E success \in BOOLEAN : EBUpdateStats(success)
    \/ Tick

SpecHash == InitHash /\ [][NextHash]_vars

\* C13 (P5): when consistent hashing gave client c the server S, and S has been
\* healthy with its breaker not Open ever since, the next selection for c
\* returns S again.
HashStable ==
    (last.op = "ConsistentHash.SelectServer" /\ last.pre # NoURL) => last.url = last.pre

-----------------------------------------------------------------------------
(* The Lifecycle Manager with its callbacks installed *)

LifecycleRequests == 1
LifecycleRemovals == 2
LifecycleTicks == 3

CheckInterval == 1

\* The two-server deployment of InitDrain after SetCallbacks(onRemoved, onDrained),
\* with time enough for a drain to reach its deadline.
InitLifecycle ==
    /\ InitParts
    /\ callbacks = SetCallbacks(NoCallbacks, TRUE, TRUE)
    /\ now = 0
    /\ req = [r \in Requests |-> IdleReq]
    /\ pendingRemovals = <<>>
    /\ monitors = [u \in URLs |-> 0]
    /\ last = Event("init", NoURL, TRUE, "")
    /\ cur = [u \in URLs |-> FreshObs]
    /\ hist = [u \in URLs |-> FreshObs]
    /\ cfgs = <<Config(<<Server("u1", 2, 1), Server("u2", 1, 2)>>)>>
    /\ config = 1
    /\ servers = UpdateServers(<<>>, <<>>, {}, 1, cfgs[1].Servers).servers
    /\ conns = UpdateServers(<<>>, <<>>, {}, 1, cfgs[1].Servers).conns
    /\ urls = URLs
    /\ budget = [req |-> LifecycleRequests, par |-> 1, upd |-> 0,
                 rem |-> LifecycleRemovals, tick |-> LifecycleTicks]

SpecLifecycle == InitLifecycle /\ [][NextDrain]_vars

\* The step ends the drain of u, by the operation op.
DrainEndedBy(u, op) ==
    /\ u \in DOMAIN pendingRemovals
    /\ u \notin DOMAIN pendingRemovals'
    /\ last'.op = op

DrainInTime ==
    \A u \in DOMAIN pendingRemovals :
        now <= pendingRemovals[u].StartTime + DrainTimeout + CheckInterval

DrainCallbacks(u) ==
    /\ callbacks'.drained[u] = callbacks.drained[u]
           + (IF DrainEndedBy(u, "checkAndFinalizeDrain") THEN 1 ELSE 0)
    /\ callbacks'.removed[u] = callbacks.removed[u]
           + (IF DrainEndedBy(u, "checkAndFinalizeDrain") \/ DrainEndedBy(u, "ForceRemoval")
              THEN 1 ELSE 0)
    /\ (u \in DOMAIN pendingRemovals /\ u \notin DOMAIN pendingRemovals')
           => last'.op \in {"checkAndFinalizeDrain", "ForceRemoval", "CancelRemoval"}

\* C14 (P7): no RemovalState is older than drainTimeout + checkInterval, and a
\* step calls onDrained(U) and onRemoved(U) once each when a monitor ends the
\* drain of U, onRemoved(U) once when the drain is forced, and no callback
\* otherwise -- whatever StartGracefulRemoval, CancelRemoval and ForceRemoval
\* calls come in between.
DrainEndsInTimeOnce == []DrainInTime /\ [][\A u \in URLs : DrainCallbacks(u)]_vars

\* C14 witness: after a cancel and a restart a monitor has ended the drain of u1
\* at its deadline with a request still in flight; both callbacks were called
\* once and the monitor of the cancelled drain is still running.
DrainTimedOutAfterRestart ==
    /\ last = Event("checkAndFinalizeDrain", "u1", TRUE, "drained")
    /\ now >= DrainTimeout
    /\ conns[servers["u1"].id] > 0
    /\ monitors["u1"] = 1
    /\ budget.rem = 0
    /\ callbacks.drained["u1"] = 1
    /\ callbacks.removed["u1"] = 1

\* C15: a StartGracefulRemoval(U) while U is draining keeps the RemovalState of
\* every URL (start time, deadline, counter reference), the active flags, the
\* set of monitors and the callbacks' call counts as they are.
SecondStartIsNoOp ==
    [][\A u \in DOMAIN pendingRemovals :
           (last'.op = "StartGracefulRemoval" /\ last'.url = u)
               => /\ ~last'.ok
                  /\ UNCHANGED <<pendingRemovals, monitors, callbacks, cfgs>>]_vars

\* C15 witness: a second StartGracefulRemoval(u1) arrived 15 s or more into the
\* drain of u1.
SecondStartDuringDrain ==
    /\ last = Event("StartGracefulRemoval", "u1", FALSE, "draining")
    /\ "u1" \in DOMAIN pendingRemovals
    /\ now > pendingRemovals["u1"].StartTime
    /\ monitors["u1"] = 1

\* C16: CancelRemoval(U) on a draining U returns true, deletes the RemovalState
\* and sets the server active; on any other U it returns false and changes
\* nothing.  It calls no callback, a callback for U is only ever called by a
\* step that ends a RemovalState of U, and a monitor tick that finds the
\* RemovalState gone calls none.
CancelRemovalContract ==
    [][\A u \in URLs :
           /\ (last'.op = "CancelRemoval" /\ last'.url = u) =>
                  IF u \in DOMAIN pendingRemovals
                  THEN LET ptr == pendingRemovals[u].Server
                       IN  /\ last'.ok
                           /\ u \notin DOMAIN pendingRemovals'
                           /\ cfgs'[ptr.cfg].Servers[ptr.idx].Active
                           /\ callbacks' = callbacks
                  ELSE /\ ~last'.ok
                       /\ UNCHANGED <<cfgs, pendingRemovals, monitors, callbacks,
                                      servers, conns>>
           /\ (callbacks'.drained[u] # callbacks.drained[u]
                  \/ callbacks'.removed[u] # callbacks.removed[u])
                  => u \in DOMAIN pendingRemovals /\ u \notin DOMAIN pendingRemovals'
           /\ (last'.op = "checkAndFinalizeDrain" /\ last'.url = u
                  /\ u \notin DOMAIN pendingRemovals)
                  => callbacks' = callbacks]_vars

\* C16 witness: the drain of u1 was cancelled, u1 is active again, and the
\* monitor's next tick found the RemovalState gone; no callback was called.
CancelledDrainStaysSilent ==
    /\ last = Event("checkAndFinalizeDrain", "u1", TRUE, "gone")
    /\ Deref(servers["u1"].Server).Active
    /\ callbacks.drained["u1"] = 0
    /\ callbacks.removed["u1"] = 0
    /\ budget.rem = LifecycleRemovals - 1

-----------------------------------------------------------------------------
(* The Lifecycle Manager beside configuration reloads *)

RetireRequests == 1
RetireUpdates == 1

\* The two-server deployment of InitDrain where the operator may also change
\* the configuration.
InitRetire ==
    /\ InitCommon
    /\ cfgs = <<Config(<<Server("u1", 2, 1), Server("u2", 1, 2)>>)>>
    /\ config = 1
    /\ servers = UpdateServers(<<>>, <<>>, {}, 1, cfgs[1].Servers).servers
    /\ conns = UpdateServers(<<>>, <<>>, {}, 1, cfgs[1].Servers).conns
    /\ urls = URLs
    /\ budget = [req |-> RetireRequests, par |-> 1, upd |-> RetireUpdates,
                 rem |-> MaxRemovals, tick |-> MaxTicks]

NextRetire ==
    \/ NextDrain
    \/ \E roster \in Rosters : UpdateConfig(roster)

SpecRetire == InitRetire /\ [][NextRetire]_vars

\* C17: a server that is draining is in the Registry, under the ServerState whose
\* in-flight counter the drain watches.
DrainingStaysRegistered ==
    \A u \in DOMAIN pendingRemovals :
        /\ u \in DOMAIN servers
        /\ servers[u].id = pendingRemovals[u].ConnectionCount

-----------------------------------------------------------------------------
(* Requests that cannot be given a server *)

UnavailableRequests == 2
UnavailableTicks == 3

\* The proxy before any configuration was loaded, with a configuration that
\* lists no backends, with an empty roster, and with the single server u1 whose
\* breaker is about to open or Open.
InitUnavailable ==
    /\ InitParts
    /\ callbacks = NoCallbacks
    /\ now = 0
    /\ req = [r \in Requests |-> IdleReq]
    /\ pendingRemovals = <<>>
    /\ monitors = [u \in URLs |-> 0]
    /\ urls = {"u1"}
    /\ last = Event("init", NoURL, TRUE, "")
    /\ budget = [req |-> UnavailableRequests, par |-> NumRequests, upd |-> 0,
                 rem |-> 0, tick |-> UnavailableTicks]
    /\ \/ /\ cfgs = <<>>
          /\ config = 0
          /\ servers = <<>>
          /\ conns = <<>>
          /\ cur = [u \in URLs |-> FreshObs]
       \/ /\ cfgs \in {<<NoBackends>>, <<Config(<<>>)>>}
          /\ config = 1
          /\ servers = <<>>
          /\ conns = <<>>
          /\ cur = [u \in URLs |-> FreshObs]
       \/ /\ cfgs = <<Config(<<Server("u1", 1, 1)>>)>>
          /\ config = 1
          /\ \E k \in {PriorFailures, FailureThreshold} :
                 LET up == UpdateServers(<<>>, <<>>, {}, 1, <<Server("u1", 1, 1)>>)
                     st == AfterFailures(up.servers, up.conns, FreshObs, k)
                 IN  /\ servers = st.servers
                     /\ conns = st.conns
                     /\ cur = [u \in URLs |-> IF u = "u1" THEN st.obs ELSE FreshObs]
    /\ hist = cur

NextUnavailable ==
    \/ \E r \in Requests : ServeHTTP(r)
    \/ \E r \in Requests : SelectLock(r)
    \/ \E r \in Requests : SelectPick(r)
    \/ \E r \in Requests : SelectReturn(r)
    \/ \E r \in Requests, status \in Statuses : ModifyResponse(r, status)
    \/ \E r \in Requests, err \in TransportErrors : ErrorHandler(r, err)
    \/ Tick

SpecUnavailable == InitUnavailable /\ [][NextUnavailable]_vars

\* C18: a request that fails for want of an eligible server has called
\* SelectServer retries + 1 times.
SelectCalledRetriesPlusOne ==
    (last.op = "ServeHTTP" /\ last.pre = "No active servers")
        => last.calls = Retries(config) + 1

MaxHeaderLen == 3

\* The characters header values are made of: two of an address, the list
\* separator and the blank that usually follows it.
HeaderChars == {"a", "b", ",", " "}

HeaderValues == UNION {[1..n -> HeaderChars] : n \in 0..MaxHeaderLen}

ShortValues == {v \in HeaderValues : Len(v) <= 1}

\* What a header key maps to: nothing (the header is absent), one value (which
\* may be empty: "X-Real-IP:" is a well-formed header line), or two values (the
\* header line is repeated).
ForwardedLines ==
    {<<>>} \cup {<<v>> : v \in HeaderValues}
           \cup {<<v, w>> : v \in ShortValues, w \in ShortValues}

RealIPLines == {<<>>} \cup {<<v>> : v \in ShortValues}

\* r.RemoteAddr as net/http sets it for a TCP connection: "1.2.3.4:9" or "[::1]:9".
RemoteAddrs ==
    {<<"1", ":", "9">>, <<"[", ":", ":", "1", "]", ":", "9">>}

\* http.Header.Get: the first value of the key, "" when there is none.
HeaderGet(lines) == IF Len(lines) = 0 THEN <<>> ELSE lines[1]

\* Position of the first c in s, 0 when there is none.
IndexByte(s, c) ==
    IF \E i \in 1..Len(s) : s[i] = c
    THEN CHOOSE i \in 1..Len(s) : s[i] = c /\ \A j \in 1..(i - 1) : s[j] # c
    ELSE 0

\* Position of the last c in s, 0 when there is none.
LastIndexByte(s, c) ==
    IF \E i \in 1..Len(s) : s[i] = c
    THEN CHOOSE i \in 1..Len(s) : s[i] = c /\ \A j \in (i + 1)..Len(s) : s[j] # c
    ELSE 0

\* strings.Split(s, sep) for a one-character sep: the fields between the
\* separators, one more than there are separators.
RECURSIVE Split(_, _)
Split(s, sep) ==
    LET i == IndexByte(s, sep)
    IN  IF i = 0 THEN <<s>>
        ELSE <<SubSeq(s, 1, i - 1)>> \o Split(SubSeq(s, i + 1, Len(s)), sep)

\* net.SplitHostPort(hostport): "host:port" or "[host]:port"; host and port are
\* empty when err is set.
SplitHostPort(hostport) ==
    LET n    == Len(hostport)
        i    == LastIndexByte(hostport, ":")
        Fail == [host |-> <<>>, port |-> <<>>, err |-> TRUE]
    IN  IF i = 0 THEN Fail
        ELSE IF hostport[1] = "["
        THEN LET end == IndexByte(hostport, "]")
             IN  IF end = 0 \/ end + 1 # i THEN Fail
                 ELSE IF \/ IndexByte(SubSeq(hostport, 2, n), "[") > 0
                         \/ IndexByte(SubSeq(hostport, end + 1, n), "]") > 0
                 THEN Fail
                 ELSE [host |-> SubSeq(hostport, 2, end - 1),
                       port |-> SubSeq(hostport, i + 1, n), err |-> FALSE]
        ELSE LET host == SubSeq(hostport, 1, i - 1)
             IN  IF IndexByte(host, ":") > 0 THEN Fail
                 ELSE IF IndexByte(hostport, "[") > 0 \/ IndexByte(hostport, "]") > 0
                 THEN Fail
                 ELSE [host |-> host, port |-> SubSeq(hostport, i + 1, n), err |-> FALSE]

\* Faulty variant of getClientIP: X-Real-IP is consulted before X-Forwarded-For.
getClientIPRealFirst(r) ==
    LET xff == HeaderGet(r.XForwardedFor)
        xri == HeaderGet(r.XRealIP)
    IN  IF xri # <<>> THEN xri
        ELSE IF xff # <<>> THEN Split(xff, ",")[1]
        ELSE SplitHostPort(r.RemoteAddr).host

\* getClientIP(r): the text before the first comma of X-Forwarded-For when Get
\* returns a non-empty string for it, else X-Real-IP when Get returns a non-empty
\* string, else the host of RemoteAddr (the error of SplitHostPort is dropped).
getClientIP(r) ==
    LET xff == HeaderGet(r.XForwardedFor)
        xri == HeaderGet(r.XRealIP)
    IN  IF xff # <<>> THEN Split(xff, ",")[1]
        ELSE IF xri # <<>> THEN xri
        ELSE SplitHostPort(r.RemoteAddr).host

\* The requests explored.
HTTPRequests ==
    {[XForwardedFor |-> f, XRealIP |-> x, RemoteAddr |-> a, clientIP |-> <<>>] :
        f \in ForwardedLines, x \in RealIPLines, a \in RemoteAddrs}

\* net/http hands the next request to ServeHTTP.
Receive ==
    /\ last.op = "getClientIP"
    /\ http' \in HTTPRequests
    /\ last' = Event("Receive", NoURL, TRUE, "")
    /\ UNCHANGED <<now, cfgs, config, servers, conns, req, pendingRemovals, monitors,
                   budget, urls, cur, hist, callbacks, awrr, ring, more>>

\* ServeHTTP: clientIP := p.getClientIP(r).
ClientIP ==
    /\ last.op # "getClientIP"
    /\ http' = [http EXCEPT !.clientIP = getClientIP(http)]
    /\ last' = Event("getClientIP", NoURL, TRUE, "")
    /\ UNCHANGED <<now, cfgs, config, servers, conns, req, pendingRemovals, monitors,
                   budget, urls, cur, hist, callbacks, awrr, ring, more>>

\* A request has arrived; nothing else of the proxy takes part.
InitClientIP ==
    /\ now = 0
    /\ cfgs = <<>>
    /\ config = 0
    /\ servers = <<>>
    /\ conns = <<>>
    /\ req = [r \in Requests |-> IdleReq]
    /\ pendingRemovals = <<>>
    /\ monitors = [u \in URLs |-> 0]
    /\ budget = [req |-> 0, par |-> 0, upd |-> 0, rem |-> 0, tick |-> 0]
    /\ urls = URLs
    /\ last = Event("init", NoURL, TRUE, "")
    /\ cur = [u \in URLs |-> FreshObs]
    /\ hist = [u \in URLs |-> FreshObs]
    /\ callbacks = NoCallbacks
    /\ awrr = [lastUpdate |-> ZeroTime, servers |-> <<>>]
    /\ ring = NoRing
    /\ InitMore
    /\ http \in HTTPRequests

NextClientIP == ClientIP \/ Receive

SpecClientIP == InitClientIP /\ [][NextClientIP]_vars

\* The header has a value that is not the empty string.
HasValue(lines) == IF Len(lines) = 0 THEN FALSE ELSE Len(lines[1]) > 0

\* id is the first comma-separated value of v: v up to its first comma, or all
\* of v when it has none.
FirstOf(v, id) ==
    /\ Len(id) <= Len(v)
    /\ id = SubSeq(v, 1, Len(id))
    /\ \A i \in 1..Len(id) : id[i] # ","
    /\ IF Len(id) = Len(v) THEN TRUE ELSE v[Len(id) + 1] = ","

\* id is the host part of addr: addr is id ":" port or "[" id "]:" port.
HostOf(addr, id) ==
    \E n \in 1..Len(addr) :
        /\ addr[n] = ":"
        /\ \A j \in (n + 1)..Len(addr) : addr[j] # ":"
        /\ SubSeq(addr, 1, n - 1) \in {id, <<"[">> \o id \o <<"]">>}

\* C20 as amended: the identity derived is the first comma-separated value of
\* X-Forwarded-For when that header has a non-empty value, else the value of
\* X-Real-IP when that header has a non-empty value, else the host part of the
\* remote address; X-Forwarded-For goes before X-Real-IP, which goes before the
\* remote address.
ClientIdentityByValue ==
    last.op = "getClientIP" =>
        IF HasValue(http.XForwardedFor)
        THEN FirstOf(http.XForwardedFor[1], http.clientIP)
        ELSE IF HasValue(http.XRealIP)
        THEN http.clientIP = http.XRealIP[1]
        ELSE HostOf(http.RemoteAddr, http.clientIP)

\* C20 witness: "X-Forwarded-For: a,b", "X-Real-IP: b" and the identity is a.
ForwardedBeforeRealIP ==
    /\ last.op = "getClientIP"
    /\ http.XForwardedFor = << <<"a", ",", "b">> >>
    /\ http.XRealIP = << <<"b">> >>
    /\ http.clientIP = <<"a">>

\* C20 as stated: the same with "present" for a header the request carries,
\* whatever its value.
ClientIdentityByPresence ==
    last.op = "getClientIP" =>
        IF Len(http.XForwardedFor) > 0
        THEN FirstOf(http.XForwardedFor[1], http.clientIP)
        ELSE IF Len(http.XRealIP) > 0
        THEN http.clientIP = http.XRealIP[1]
        ELSE HostOf(http.RemoteAddr, http.clientIP)


\* ---------------------------------------------------------------------------
\* Forwarding: the hooks of createIntelligentProxy and the retry, with every
\* status and every transport error.

\* Requests served in all.
ForwardRequests == 2

\* main has loaded a configuration of one or of two servers.
InitForward ==
    /\ InitCommon
    /\ cfgs \in {<<Config(<<Server("u1", 2, 1), Server("u2", 1, 2)>>)>>,
                 <<Config(<<Server("u1", 2, 1)>>)>>}
    /\ config = 1
    /\ servers = UpdateServers(<<>>, <<>>, {}, 1, cfgs[1].Servers).servers
    /\ conns = UpdateServers(<<>>, <<>>, {}, 1, cfgs[1].Servers).conns
    /\ urls = URLs
    /\ budget = [req |-> ForwardRequests, par |-> NumRequests, upd |-> 0,
                 rem |-> 0, tick |-> 0]

NextForward ==
    \/ \E r \in Requests : ServeHTTP(r)
    \/ \E r \in Requests : SelectLock(r)
    \/ \E r \in Requests : SelectPick(r)
    \/ \E r \in Requests : SelectReturn(r)
    \/ \E r \in Requests, status \in AllStatuses : ModifyResponse(r, status)
    \/ \E r \in Requests, err \in AllErrors : ErrorHandler(r, err)
    \/ \E r \in Requests, status \in AllStatuses, err \in {NoError} \cup AllErrors :
           RetryProxyDone(r, status, err)

SpecForward == InitForward /\ [][NextForward]_vars

\* How far a request has come.
Stage(pc) ==
    CASE pc = "idle" -> 0
      [] pc \in {"select", "rlock", "bump"} -> 1
      [] pc = "forward" -> 2
      [] pc \in {"retry_select", "retry_rlock", "retry_bump"} -> 3
      [] pc = "retry_forward" -> 4

\* The message has one of the three texts in it.
Retryable(err) ==
    \E i \in 1..Len(err) : err[i] \in {"connection refused", "timeout", "no route to host"}

\* The outcomes recorded for u differ by exactly d successes and f failures.
RecordedMore(u, d, f) ==
    /\ u \in DOMAIN servers /\ u \in DOMAIN servers'
    /\ servers'[u].Metrics.SuccessCount = servers[u].Metrics.SuccessCount + d
    /\ servers'[u].Metrics.FailureCount = servers[u].Metrics.FailureCount + f

FailedForwardSurfaced ==
    [][/\ (\/ last'.op = "UpdateStats" /\ last'.err # NoError /\ ~Retryable(last'.err)
           \/ last'.op = "SelectServer" /\ last'.pre = "retry" /\ last'.url = NoURL
           \/ last'.op = "SelectServer" /\ last'.pre = "retry same"
           \/ last'.op = "retryProxy" /\ ~last'.ok) =>
              /\ last'.status = 503
              /\ last'.body = "Service Temporarily Unavailable"
       /\ (\/ last'.op = "UpdateStats" /\ last'.err # NoError
           \/ last'.op = "retryProxy" /\ ~last'.ok) =>
              RecordedMore(last'.url, 0, 1)]_vars


\* ---------------------------------------------------------------------------
\* Health classification (UpdateStats).

HealthRequests == 4
HealthUpdates == 2
HealthTicks == 3

\* The single server u1 after 0 to 10 requests failed in a row, requests one at a
\* time, and a configuration that may drop u1 and list it again.
InitHealth ==
    /\ InitParts
    /\ callbacks = NoCallbacks
    /\ now = 0
    /\ req = [r \in Requests |-> IdleReq]
    /\ pendingRemovals = <<>>
    /\ monitors = [u \in URLs |-> 0]
    /\ cfgs = <<Config(<<Server("u1", 1, 1)>>)>>
    /\ config = 1
    /\ urls = {"u1"}
    /\ \E k \in 0..UnhealthyFails :
           LET up == UpdateServers(<<>>, <<>>, {}, 1, <<Server("u1", 1, 1)>>)
               st == AfterFailures(up.servers, up.conns, FreshObs, k)
           IN  /\ servers = st.servers
               /\ conns = st.conns
               /\ cur = [u \in URLs |-> IF u = "u1" THEN st.obs ELSE FreshObs]
               /\ hist = [u \in URLs |-> IF u = "u1" THEN st.obs ELSE FreshObs]
               /\ last = IF k = 0 THEN Event("UpdateConfig", NoURL, TRUE, "")
                         ELSE Unavailable([Event("UpdateStats", "u1", FALSE, "Closed")
                                              EXCEPT !.err = UnexpectedEOF])
    /\ budget = [req |-> HealthRequests, par |-> 1, upd |-> HealthUpdates,
                 rem |-> 0, tick |-> HealthTicks]

SpecHealth == InitHealth /\ [][NextBreaker]_vars

\* What C23 asks of the classification, obs counting the failures in a row: the
\* consecutive-failure count is that number, 3 to 9 failures in a row have made
\* the server Degraded, 10 or more Unhealthy.
HealthTracks(obs) ==
    \A u \in DOMAIN servers :
        /\ servers[u].ConsecutiveFails = obs[u].streak
        /\ obs[u].streak >= UnhealthyFails => servers[u].HealthState = "Unhealthy"
        /\ (obs[u].streak >= DegradedFails /\ obs[u].streak < UnhealthyFails)
               => servers[u].HealthState = "Degraded"

\* The step in which a success is recorded for a ServerState moves it from
\* Degraded or Recovering to Healthy and leaves any other classification.
SuccessHeals ==
    (last'.op = "UpdateStats" /\ last'.ok /\ SameState(servers, servers', last'.url)) =>
        /\ servers'[last'.url].ConsecutiveFails = 0
        /\ servers'[last'.url].HealthState =
               IF servers[last'.url].HealthState \in {"Degraded", "Recovering"}
               THEN "Healthy" ELSE servers[last'.url].HealthState

\* C23 amended: the statement for the outcomes recorded since the ServerState
\* of the server was created.
HealthOfState == []HealthTracks(cur) /\ [][SuccessHeals]_vars

\* C23 witness: an Unhealthy server (ten failures in a row) has just had a
\* success recorded, its breaker probing: it is still Unhealthy, with no
\* consecutive failure.
UnhealthyAfterSuccess ==
    /\ "u1" \in DOMAIN servers
    /\ last.op = "UpdateStats" /\ last.ok /\ last.pre = "HalfOpen"
    /\ servers["u1"].HealthState = "Unhealthy"
    /\ servers["u1"].ConsecutiveFails = 0
    /\ servers["u1"].Metrics.FailureCount = UnhealthyFails

\* C23 as stated, for the outcomes recorded for the server named by its URL.
HealthOfURL == []HealthTracks(hist) /\ [][SuccessHeals]_vars


\* ---------------------------------------------------------------------------
\* The Adaptive Controller (selectOptimalAlgorithm, evaluateAlgorithms), called
\* by every SelectServer under the read lock of the Registry, so by several
\* goroutines at once.

\* Goroutines in SelectServer at the same time, calls of SelectServer in all,
\* steps of the clock, and how many of the registered algorithms are scored.
NumSelectors == 3
SelectCalls == 3
AdaptiveTicks == 3
NumAlgorithms == 3

\* switchThreshold (0.15, in thousandths) and evaluationWindow (seconds).
SwitchThreshold == 150
EvaluationWindow == 30

\* The factors of calculateAlgorithmScore, in thousandths.
ErrorRateShare == 300
ResponseTimeShare == 300
ThroughputShare == 200
BalanceShare == 200

Selectors == 1..NumSelectors

\* The keys of eb.algorithms, and those explored.
AlgorithmNames ==
    <<"adaptive_weighted", "least_connections", "response_time", "consistent_hash",
      "power_of_two", "weighted_fair_queue">>

Algorithms == {AlgorithmNames[i] : i \in 1..NumAlgorithms}

\* A goroutine outside selectOptimalAlgorithm.  compared is an observation: the
\* algorithm whose score the goroutine read as currentScore.
IdleSelector ==
    [pc |-> "idle", bestAlgorithm |-> "", bestScore |-> 0, todo |-> {},
     currentScore |-> 0, readScore |-> 0, compared |-> ""]

\* map[string]float64: a missing key reads 0.0.
ScoreOf(scores, name) == IF name \in DOMAIN scores THEN scores[name] ELSE 0

\* math.Sqrt, rounded down to a whole number.
RECURSIVE SqrtBetween(_, _, _)
SqrtBetween(lo, hi, x) ==
    IF lo = hi THEN lo
    ELSE LET mid == (lo + hi + 1) \div 2
         IN  IF mid * mid <= x THEN SqrtBetween(mid, hi, x) ELSE SqrtBetween(lo, mid - 1, x)

ISqrt(x) == SqrtBetween(0, 2 * Milli, x)

RECURSIVE SumOver(_, _)
SumOver(f, S) ==
    IF S = {} THEN 0 ELSE LET x == CHOOSE y \in S : TRUE IN f[x] + SumOver(f, S \ {x})

\* calculateLoadBalanceScore, in thousandths: 1 - cv, where cv is the standard
\* deviation of the servers' RequestCount over their mean.  With n servers of
\* loads l, sum S and sum of squares Q: cv^2 = (n Q - S^2) / S^2.
calculateLoadBalanceScore(load) ==
    LET n == Cardinality(DOMAIN load)
        S == SumOver(load, DOMAIN load)
        Q == SumOver([u \in DOMAIN load |-> load[u] * load[u]], DOMAIN load)
    IN  IF n < 2 THEN Milli
        ELSE IF S = 0 THEN Milli
        ELSE Max(0, Milli - ISqrt(((n * Q - S * S) * Milli * Milli) \div (S * S)))

\* calculateAlgorithmScore(name), in thousandths.  The name is not used: what
\* tells two algorithms apart is the moment they are scored at.  The global
\* metrics are those before any outcome was recorded (error rate, average
\* response time and throughput 0).
calculateAlgorithmScore(name, load) ==
    Scaled(Milli - 0, ErrorRateShare) + 0 + Scaled(0, ThroughputShare)
        + Scaled(calculateLoadBalanceScore(load), BalanceShare)

\* selectOptimalAlgorithm, lines 446-450: lastSwitch is read and compared with the
\* clock.  The goroutines are interchangeable: the lowest idle one starts.
EnterSelect(g) ==
    /\ ctl.g[g].pc = "idle"
    /\ \A q \in Selectors : q < g => ctl.g[q].pc # "idle"
    /\ ctl.calls < SelectCalls
    /\ ctl.lock = 0
    /\ ctl' = [ctl EXCEPT !.calls = @ + 1,
                          !.g[g].pc = IF now - ctl.lastSwitch > EvaluationWindow
                                      THEN "evaluate" ELSE "return"]
    /\ last' = Event("selectOptimalAlgorithm", NoURL, TRUE, "")
    /\ UNCHANGED <<now, cfgs, config, servers, conns, req, pendingRemovals, monitors,
                   budget, urls, cur, hist, callbacks, awrr, ring, http, others>>

\* evaluateAlgorithms, lines 471-475: the controller's lock is taken.
EvaluateLock(g) ==
    /\ ctl.g[g].pc = "evaluate"
    /\ ctl.lock = 0
    /\ ctl' = [ctl EXCEPT !.lock = g,
                          !.evaluatedAt = now,
                          !.g[g] = [IdleSelector EXCEPT !.pc = "loop",
                                                        !.bestAlgorithm = ctl.currentAlgorithm,
                                                        !.todo = Algorithms]]
    /\ last' = Event("evaluateAlgorithms", NoURL, TRUE, "")
    /\ UNCHANGED <<now, cfgs, config, servers, conns, req, pendingRemovals, monitors,
                   budget, urls, cur, hist, callbacks, awrr, ring, http, others>>

\* evaluateAlgorithms, one round of the loop over the map (in any order), and the
\* return with the deferred unlock after the last round.
EvaluateStep(g, name) ==
    /\ ctl.g[g].pc = "loop"
    /\ name \in ctl.g[g].todo
    /\ LET score  == calculateAlgorithmScore(name, ctl.load)
           better == score > ctl.g[g].bestScore
           rest   == ctl.g[g].todo \ {name}
       IN  ctl' = [ctl EXCEPT
                      !.algorithmScores = [n \in DOMAIN @ \cup {name} |->
                                              IF n = name THEN score ELSE @[n]],
                      !.lock = IF rest = {} THEN 0 ELSE g,
                      !.g[g].bestScore = IF better THEN score ELSE @,
                      !.g[g].bestAlgorithm = IF better THEN name ELSE @,
                      !.g[g].todo = rest,
                      !.g[g].pc = IF rest = {} THEN "compare" ELSE "loop"]
    /\ last' = Event("calculateAlgorithmScore", NoURL, TRUE, name)
    /\ UNCHANGED <<now, cfgs, config, servers, conns, req, pendingRemovals, monitors,
                   budget, urls, cur, hist, callbacks, awrr, ring, http, others>>

\* selectOptimalAlgorithm, line 452.
Compare(g) ==
    /\ ctl.g[g].pc = "compare"
    /\ ctl' = [ctl EXCEPT !.g[g] =
                  IF ctl.g[g].bestAlgorithm # ctl.currentAlgorithm
                  THEN [IdleSelector EXCEPT !.pc = "scores",
                                            !.bestAlgorithm = ctl.g[g].bestAlgorithm]
                  ELSE [IdleSelector EXCEPT !.pc = "return"]]
    /\ last' = Event("compare", NoURL, TRUE, "")
    /\ UNCHANGED <<now, cfgs, config, servers, conns, req, pendingRemovals, monitors,
                   budget, urls, cur, hist, callbacks, awrr, ring, http, others>>

\* selectOptimalAlgorithm, lines 453-458: both scores are read under the read
\* lock of the controller, then compared.
ReadScores(g) ==
    /\ ctl.g[g].pc = "scores"
    /\ ctl.lock = 0
    /\ LET currentScore == ScoreOf(ctl.algorithmScores, ctl.currentAlgorithm)
           bestScore    == ScoreOf(ctl.algorithmScores, ctl.g[g].bestAlgorithm)
       IN  ctl' = [ctl EXCEPT !.g[g] =
                      IF bestScore - currentScore > SwitchThreshold
                      THEN [ctl.g[g] EXCEPT !.pc = "switch",
                                            !.currentScore = currentScore,
                                            !.readScore = bestScore,
                                            !.compared = ctl.currentAlgorithm]
                      ELSE [IdleSelector EXCEPT !.pc = "return"]]
    /\ last' = Event("readScores", NoURL, TRUE, "")
    /\ UNCHANGED <<now, cfgs, config, servers, conns, req, pendingRemovals, monitors,
                   budget, urls, cur, hist, callbacks, awrr, ring, http, others>>

\* selectOptimalAlgorithm, line 459.
Switch(g) ==
    /\ ctl.g[g].pc = "switch"
    /\ ctl' = [ctl EXCEPT !.currentAlgorithm = ctl.g[g].bestAlgorithm,
                          !.g[g] = [IdleSelector EXCEPT !.pc = "record"]]
    /\ last' = Event("switch", NoURL, TRUE, ctl.g[g].bestAlgorithm)
    /\ UNCHANGED <<now, cfgs, config, servers, conns, req, pendingRemovals, monitors,
                   budget, urls, cur, hist, callbacks, awrr, ring, http, others>>

\* selectOptimalAlgorithm, lines 460-462.
RecordSwitch(g) ==
    /\ ctl.g[g].pc = "record"
    /\ ctl.lock = 0
    /\ ctl' = [ctl EXCEPT !.lastSwitch = now, !.g[g].pc = "return"]
    /\ last' = Event("lastSwitch", NoURL, TRUE, "")
    /\ UNCHANGED <<now, cfgs, config, servers, conns, req, pendingRemovals, monitors,
                   budget, urls, cur, hist, callbacks, awrr, ring, http, others>>

\* selectOptimalAlgorithm returns eb.algorithms[eb.currentAlgorithm]; the
\* algorithm picks a server and SelectServer counts the request on it.
ReturnAlgorithm(g, u) ==
    /\ ctl.g[g].pc = "return"
    /\ u \in DOMAIN ctl.load
    /\ ctl' = [ctl EXCEPT !.load[u] = @ + 1, !.g[g] = IdleSelector]
    /\ last' = Event("algorithm", u, TRUE, ctl.currentAlgorithm)
    /\ UNCHANGED <<now, cfgs, config, servers, conns, req, pendingRemovals, monitors,
                   budget, urls, cur, hist, callbacks, awrr, ring, http, others>>

\* A new EnterpriseBalancer with two servers after its first SelectServer, which
\* scored every algorithm with no request counted yet, kept the current
\* algorithm and counted its request on u1.
InitAdaptive ==
    /\ now = 0
    /\ cfgs = <<>>
    /\ config = 0
    /\ servers = <<>>
    /\ conns = <<>>
    /\ req = [r \in Requests |-> IdleReq]
    /\ pendingRemovals = <<>>
    /\ monitors = [u \in URLs |-> 0]
    /\ budget = [req |-> 0, par |-> 0, upd |-> 0, rem |-> 0, tick |-> AdaptiveTicks]
    /\ urls = URLs
    /\ last = Event("init", NoURL, TRUE, "")
    /\ cur = [u \in URLs |-> FreshObs]
    /\ hist = [u \in URLs |-> FreshObs]
    /\ callbacks = NoCallbacks
    /\ awrr = [lastUpdate |-> ZeroTime, servers |-> <<>>]
    /\ ring = NoRing
    /\ http = NoRequest
    /\ ctl = [NoController EXCEPT
                 !.algorithmScores =
                     [n \in Algorithms |->
                         calculateAlgorithmScore(n, [u \in URLs |-> 0])],
                 !.evaluatedAt = 0,
                 !.load = [u \in URLs |-> IF u = "u1" THEN 1 ELSE 0],
                 !.g = [g \in Selectors |-> IdleSelector]]
    /\ met = NoMetrics
    /\ sticky = NoSessions
    /\ api = NoAPI
    /\ upsert = NoUpsert
    /\ InitLate

NextAdaptive ==
    \/ \E g \in Selectors : EnterSelect(g)
    \/ \E g \in Selectors : EvaluateLock(g)
    \/ \E g \in Selectors, name \in Algorithms : EvaluateStep(g, name)
    \/ \E g \in Selectors : Compare(g)
    \/ \E g \in Selectors : ReadScores(g)
    \/ \E g \in Selectors : Switch(g)
    \/ \E g \in Selectors : RecordSwitch(g)
    \/ \E g \in Selectors, u \in URLs : ReturnAlgorithm(g, u)
    \/ Tick

SpecAdaptive == InitAdaptive /\ [][NextAdaptive]_vars

\* C24: every step that changes the current algorithm is the switch of a
\* goroutine that has evaluated; the algorithm it replaces is the one whose
\* score that goroutine compared, the new algorithm's score was more than the
\* switch threshold above it, and the goroutine goes on to record the time of
\* the switch.
SwitchOnlyAboveThreshold ==
    [][/\ ctl'.currentAlgorithm # ctl.currentAlgorithm =>
              \E g \in Selectors :
                  /\ ctl.g[g].pc = "switch" /\ ctl'.g[g].pc = "record"
                  /\ ctl'.currentAlgorithm = ctl.g[g].bestAlgorithm
                  /\ ctl.g[g].compared = ctl.currentAlgorithm
                  /\ ctl.g[g].readScore - ctl.g[g].currentScore > SwitchThreshold
       /\ \A g \in Selectors :
              (ctl.g[g].pc = "record" /\ ctl'.g[g].pc # "record") => ctl'.lastSwitch = now
      ]_vars


\* C28: any two runs of evaluateAlgorithms are at least the evaluation window
\* (30 s) apart, whether or not the earlier one led to a switch, and the current
\* algorithm changes only in a step that belongs to an evaluation.
EvaluationsWindowApart ==
    [][/\ last'.op = "evaluateAlgorithms" => now - ctl.evaluatedAt >= EvaluationWindow
       /\ ctl'.currentAlgorithm # ctl.currentAlgorithm => last'.op = "switch"]_vars


-----------------------------------------------------------------------------
(* ProxyServiceImpl.requestCount and GetMetrics.  ServeHTTP counts every      *)
(* request with an atomic add; GetMetrics is called by the ticker goroutine   *)
(* of main, by the metrics server and by the trigger services, each call an   *)
(* atomic load, the writes to p.metrics, a second load and an atomic store.   *)

MetricsRequests == 3
MetricsSnapshots == 3
NumSnapshotters == 2

Snapshotters == 1..NumSnapshotters

IdleSnapshot == [pc |-> "idle", count |-> 0]

\* The balancer, the proxy's requests and the components that the objects
\* below do not touch.
core == <<now, cfgs, config, servers, conns, req, pendingRemovals, monitors,
              budget, urls, cur, hist, callbacks, awrr, ring, http>>

balancer == <<core, late>>

\* A proxy that has no configuration and serves nothing.
InitElsewhere ==
    /\ now = 0
    /\ cfgs = <<>>
    /\ config = 0
    /\ servers = <<>>
    /\ conns = <<>>
    /\ req = [r \in Requests |-> IdleReq]
    /\ pendingRemovals = <<>>
    /\ monitors = [u \in URLs |-> 0]
    /\ budget = [req |-> 0, par |-> 0, upd |-> 0, rem |-> 0, tick |-> 0]
    /\ urls = URLs
    /\ last = Event("init", NoURL, TRUE, "")
    /\ cur = [u \in URLs |-> FreshObs]
    /\ hist = [u \in URLs |-> FreshObs]
    /\ callbacks = NoCallbacks
    /\ awrr = [lastUpdate |-> ZeroTime, servers |-> <<>>]
    /\ ring = NoRing
    /\ http = NoRequest

\* ServeHTTP, its first statement: atomic.AddInt64(&p.requestCount, 1).
CountRequest ==
    /\ met.received < MetricsRequests
    /\ met' = [met EXCEPT !.requestCount = @ + 1, !.received = @ + 1]
    /\ last' = Event("ServeHTTP", NoURL, TRUE, "")
    /\ UNCHANGED <<balancer, ctl, sticky, api, upsert>>

\* GetMetrics: count := atomic.LoadInt64(&p.requestCount).
MetricsLoad(g) ==
    /\ met.g[g].pc = "idle"
    /\ met.calls > 0
    /\ met' = [met EXCEPT !.calls = @ - 1,
                          !.g[g] = [pc |-> "publish", count |-> met.requestCount]]
    /\ last' = Event("LoadInt64", NoURL, TRUE, "")
    /\ UNCHANGED <<balancer, ctl, sticky, api, upsert>>

\* GetMetrics: RequestsPerSecond = int(count); TotalRequests = a second load.
MetricsPublish(g) ==
    /\ met.g[g].pc = "publish"
    /\ met' = [met EXCEPT !.RequestsPerSecond = met.g[g].count,
                          !.TotalRequests = met.requestCount,
                          !.g[g].pc = "store"]
    /\ last' = Event("metrics", NoURL, TRUE, "")
    /\ UNCHANGED <<balancer, ctl, sticky, api, upsert>>

\* GetMetrics: atomic.StoreInt64(&p.requestCount, 0) and the return.  The value
\* this snapshot reports is the count it loaded.
MetricsStore(g) ==
    /\ met.g[g].pc = "store"
    /\ met' = [met EXCEPT !.requestCount = 0,
                          !.reported = @ + met.g[g].count,
                          !.g[g] = IdleSnapshot]
    /\ last' = [Event("GetMetrics", NoURL, TRUE, "") EXCEPT !.calls = met.g[g].count]
    /\ UNCHANGED <<balancer, ctl, sticky, api, upsert>>

\* A running proxy: no request counted yet, the snapshot goroutines idle.
InitMetrics ==
    /\ InitElsewhere
    /\ ctl = NoController
    /\ met = [NoMetrics EXCEPT !.g = [g \in Snapshotters |-> IdleSnapshot],
                               !.calls = MetricsSnapshots]
    /\ sticky = NoSessions
    /\ api = NoAPI
    /\ upsert = NoUpsert
    /\ InitLate

NextMetrics ==
    \/ CountRequest
    \/ \E g \in Snapshotters : MetricsLoad(g)
    \/ \E g \in Snapshotters : MetricsPublish(g)
    \/ \E g \in Snapshotters : MetricsStore(g)

SpecMetrics == InitMetrics /\ [][NextMetrics]_vars

\* C25: every request is counted in exactly one snapshot: whenever no GetMetrics
\* call is in progress, the values reported by the snapshots so far plus the
\* residual counter add up to the number of requests received.
EveryRequestInOneSnapshot ==
    (\A g \in DOMAIN met.g : met.g[g].pc = "idle") =>
        met.reported + met.requestCount = met.received


-----------------------------------------------------------------------------
(* Sticky sessions: ProxyServiceImpl.sessions, the Healthy flag of the        *)
(* domain.Servers and the HealthChecker that sets it.  The backends of this   *)
(* deployment are up: every request succeeds and every health probe is        *)
(* answered, so the Registry keeps every server Healthy with a closed         *)
(* breaker and the Selection Engine can return any server of the roster.      *)
(* sticky.cfgs is the heap of configurations (sticky_sessions: true),         *)
(* sticky.config the one the proxy serves from, sticky.checked the one whose  *)
(* Servers array the HealthChecker was started on.                            *)

StickyRequests == 4
StickyUpdates == 2
StickyChecks == 2

SessionIDs == {"X", "Y"}
NoSession == ""

\* A domain.Server as yaml.Unmarshal or the JSON decoder of the configuration
\* API builds it: Healthy has no YAML key and starts false.
StickyServer(u) == [URL |-> u, Active |-> TRUE, Healthy |-> FALSE]

StickyRosters ==
    { <<StickyServer("u1"), StickyServer("u2")>>,
      <<StickyServer("u1")>>,
      <<StickyServer("u2")>> }

\* getSessionID: the JSESSIONID cookie, else the X-Session-ID header; sid is
\* the value found, NoSession when the request carries neither.
\* getSessionServer: the server of the request's configuration that the session
\* is mapped to, if it is active and healthy; 0 for nil.
getSessionServer(st, sid) ==
    LET list == st.cfgs[st.config].Servers
        hits == {i \in 1..Len(list) :
                    /\ list[i].URL = st.sessions[sid]
                    /\ list[i].Active
                    /\ list[i].Healthy}
    IN  IF sid = NoSession THEN 0
        ELSE IF sid \notin DOMAIN st.sessions THEN 0
        ELSE IF hits = {} THEN 0
        ELSE CHOOSE i \in hits : \A j \in hits : i <= j

\* setSessionServer.
setSessionServer(st, sid, u) ==
    IF sid = NoSession THEN st.sessions
    ELSE [x \in DOMAIN st.sessions \cup {sid} |-> IF x = sid THEN u ELSE st.sessions[x]]

\* ServeHTTP up to the choice of the server, for a request that carries the
\* session id sid: selectServerWithRetry.  The Selection Engine is called only
\* when getSessionServer returns nil; it returns the server pick of the roster.
\* The event records the chosen URL, the session id and the number of calls of
\* the Selection Engine.
StickySelect(sid, pick) ==
    /\ sticky.calls.req > 0
    /\ LET list == sticky.cfgs[sticky.config].Servers
           i == getSessionServer(sticky, sid)
       IN  IF i # 0
           THEN /\ sticky' = [sticky EXCEPT !.calls.req = @ - 1]
                /\ last' = [Event("selectServerWithRetry", list[i].URL, TRUE, sid)
                               EXCEPT !.calls = 0]
           ELSE /\ pick \in 1..Len(list)
                /\ sticky' = [sticky EXCEPT
                                 !.calls.req = @ - 1,
                                 !.sessions = setSessionServer(sticky, sid, list[pick].URL)]
                /\ last' = [Event("selectServerWithRetry", list[pick].URL, TRUE, sid)
                               EXCEPT !.calls = 1]
    /\ UNCHANGED <<balancer, ctl, met, api, upsert>>

\* HealthCheckerImpl.checkAllServers, on the backend the checker was started
\* with: every active server is probed and the probe is answered.
checkAllServers ==
    /\ sticky.calls.check > 0
    /\ sticky' = [sticky EXCEPT
                     !.calls.check = @ - 1,
                     !.cfgs[sticky.checked].Servers =
                         [i \in DOMAIN @ |->
                             IF @[i].Active THEN [@[i] EXCEPT !.Healthy = TRUE] ELSE @[i]]]
    /\ last' = Event("checkAllServers", NoURL, TRUE, "")
    /\ UNCHANGED <<balancer, ctl, met, api, upsert>>

\* A new configuration is decoded and installed: ConfigAPI.updateConfig,
\* ConfigManager.Update, the callback of main, ProxyServiceImpl.UpdateConfig.
\* The HealthChecker is not started again.
StickyUpdateConfig(roster) ==
    /\ sticky.calls.upd > 0
    /\ sticky' = [sticky EXCEPT !.calls.upd = @ - 1,
                                !.cfgs = Append(@, [Servers |-> roster]),
                                !.config = Len(sticky.cfgs) + 1]
    /\ last' = Event("UpdateConfig", NoURL, TRUE, "")
    /\ UNCHANGED <<balancer, ctl, met, api, upsert>>

\* main: the configuration is loaded and installed, and the HealthChecker is
\* started on its backend; the first probe is due one health interval later.
InitSticky ==
    /\ InitElsewhere
    /\ ctl = NoController
    /\ met = NoMetrics
    /\ api = NoAPI
    /\ upsert = NoUpsert
    /\ InitLate
    /\ sticky = [config |-> 1,
                 cfgs |-> << [Servers |-> <<StickyServer("u1"), StickyServer("u2")>>] >>,
                 sessions |-> <<>>,
                 checked |-> 1,
                 calls |-> [req |-> StickyRequests, upd |-> StickyUpdates,
                            check |-> StickyChecks]]

NextSticky ==
    \/ \E sid \in SessionIDs \cup {NoSession}, pick \in 1..2 : StickySelect(sid, pick)
    \/ checkAllServers
    \/ \E roster \in StickyRosters : StickyUpdateConfig(roster)

SpecSticky == InitSticky /\ [][NextSticky]_vars

\* The URLs of the configuration the proxy serves from.
StickyRoster == {sticky.cfgs[sticky.config].Servers[i].URL :
                     i \in 1..Len(sticky.cfgs[sticky.config].Servers)}

\* C26: a request that carries a session id mapped to a server of the roster is
\* forwarded to that server without a call of the Selection Engine; when the
\* mapped server has left the roster, the request gets a server of the roster
\* and the session is mapped to it.
StickySessionsHold ==
    [][\A x \in SessionIDs :
          (last'.op = "selectServerWithRetry" /\ last'.pre = x /\ x \in DOMAIN sticky.sessions) =>
              IF sticky.sessions[x] \in StickyRoster
              THEN last'.url = sticky.sessions[x] /\ last'.calls = 0
              ELSE last'.url \in StickyRoster /\ sticky'.sessions[x] = last'.url
      ]_vars


-----------------------------------------------------------------------------
(* The configuration API.  ConfigManager.GetConfig and Update copy the        *)
(* Config struct only, so every copy shares the Backends array: a handler's   *)
(* assignment to config.Backends[i].Servers writes the slice header that the  *)
(* ConfigManager and the proxy read.  api.arr is the backing array of that    *)
(* slice (its capacity is the longest it has been), api.len its length.       *)
(* Servers are numbered: server n has the URL http://localhost:300n.          *)

ApiCalls == 3
NumHandlers == 2
ConfiguredMax == 2

\* README-API.md, Limits and Validations.
DefaultMinServers == 1
DefaultMaxServers == 10

\* handleScaleUp adds http://localhost:3004.
ScaleUpServer == 4

Handlers == 1..NumHandlers
ApiURLs == {1, 2, ScaleUpServer}
ApiOps == {"addServer", "removeServer", "handleScaleUp", "handleScaleDown"}

IdleHandler == [pc |-> "idle", op |-> "", url |-> 0, currentCount |-> 0]

\* config.Backends[i].Servers as the handlers see it.
LiveServers(a) == SubSeq(a.arr, 1, a.len)

\* append(s, x) on a slice of the shared array.
AppendServer(a, x) ==
    IF a.len < Len(a.arr)
    THEN [a EXCEPT !.arr[a.len + 1] = x, !.len = @ + 1]
    ELSE [a EXCEPT !.arr = Append(@, x), !.len = @ + 1]

\* append(s[:j], s[j+1:]...): the tail moves down inside the array.
RemoveAt(a, j) ==
    [a EXCEPT !.arr = [k \in DOMAIN @ |-> IF k >= j /\ k < a.len THEN @[k + 1] ELSE @[k]],
              !.len = @ - 1]

\* The first index of url in the slice, 0 when it is absent.
IndexOfServer(a, url) ==
    LET hits == {j \in 1..a.len : a.arr[j] = url}
    IN  IF hits = {} THEN 0 ELSE CHOOSE j \in hits : \A k \in hits : j <= k

\* The limit test of a handler, on the count it has just read.
LimitReached(a, op, currentCount) ==
    IF op \in {"addServer", "handleScaleUp"}
    THEN a.MaxServers > 0 /\ currentCount >= a.MaxServers
    ELSE a.MinServers > 0 /\ currentCount <= a.MinServers

\* A handler up to its limit test: GetConfig, currentCount := len(Servers), and
\* the answer 400 when the limit is reached.
ApiCheck(h, op, url) ==
    /\ api.h[h].pc = "idle"
    /\ api.calls > 0
    /\ op \in {"handleScaleUp", "handleScaleDown"} => url = ScaleUpServer
    /\ IF LimitReached(api, op, api.len)
       THEN /\ api' = [api EXCEPT !.calls = @ - 1]
            /\ last' = [Event(op, NoURL, FALSE, "") EXCEPT !.status = 400]
       ELSE /\ api' = [api EXCEPT !.calls = @ - 1,
                                  !.h[h] = [pc |-> "mutate", op |-> op, url |-> url,
                                            currentCount |-> api.len]]
            /\ last' = Event("GetConfig", NoURL, TRUE, "")
    /\ UNCHANGED <<balancer, ctl, met, sticky, upsert>>

\* The rest of the handler: the new slice is assigned, ConfigManager.Update
\* writes the file and runs the callbacks, the answer is written.
ApiMutate(h) ==
    /\ api.h[h].pc = "mutate"
    /\ LET op == api.h[h].op
           url == api.h[h].url
           n  == api.h[h].currentCount
           j  == IndexOfServer(api, url)
           done == [api EXCEPT !.h[h] = IdleHandler]
       IN  CASE op = "addServer" ->
                    /\ api' = AppendServer(done, url)
                    /\ last' = [Event(op, NoURL, TRUE, "") EXCEPT !.status = 201]
             [] op = "handleScaleUp" ->
                    /\ api' = AppendServer(done, url)
                    /\ last' = [Event(op, NoURL, TRUE, "") EXCEPT !.status = 200]
             [] op = "removeServer" ->
                    IF j = 0
                    THEN /\ api' = done
                         /\ last' = [Event(op, NoURL, FALSE, "") EXCEPT !.status = 404]
                    ELSE /\ api' = RemoveAt(done, j)
                         /\ last' = [Event(op, NoURL, TRUE, "") EXCEPT !.status = 200]
             [] op = "handleScaleDown" ->
                    \* Servers[:currentCount-1]; past the capacity the slice
                    \* expression panics and net/http ends the request
                    IF n > 1 /\ n - 1 <= Len(api.arr)
                    THEN /\ api' = [done EXCEPT !.len = n - 1]
                         /\ last' = [Event(op, NoURL, TRUE, "") EXCEPT !.status = 200]
                    ELSE /\ api' = done
                         /\ last' = [Event(op, NoURL, n <= 1, "") EXCEPT
                                        !.status = IF n <= 1 THEN 200 ELSE 500]
    /\ UNCHANGED <<balancer, ctl, met, sticky, upsert>>

\* The limits the documentation promises for a backend.
EffectiveMin(a) == IF a.MinServers > 0 THEN a.MinServers ELSE DefaultMinServers
EffectiveMax(a) == IF a.MaxServers > 0 THEN a.MaxServers ELSE DefaultMaxServers

\* A loaded configuration: min_servers and max_servers set or left out, and a
\* server count within the limits.
InitAPI ==
    /\ InitElsewhere
    /\ ctl = NoController
    /\ met = NoMetrics
    /\ sticky = NoSessions
    /\ upsert = NoUpsert
    /\ InitLate
    /\ \E min \in {0, DefaultMinServers}, max \in {0, ConfiguredMax} :
       \E n \in {1, 2, DefaultMaxServers} :
          /\ n >= (IF min > 0 THEN min ELSE DefaultMinServers)
          /\ n <= (IF max > 0 THEN max ELSE DefaultMaxServers)
          /\ api = [arr |-> [k \in 1..n |-> k], len |-> n,
                    MinServers |-> min, MaxServers |-> max,
                    h |-> [h \in Handlers |-> IdleHandler], calls |-> ApiCalls]

NextAPI ==
    \/ \E h \in Handlers, op \in ApiOps, url \in ApiURLs : ApiCheck(h, op, url)
    \/ \E h \in Handlers : ApiMutate(h)

SpecAPI == InitAPI /\ [][NextAPI]_vars

\* C27: the number of servers of the backend stays between min_servers (1 when
\* not configured) and max_servers (10 when not configured), and a request
\* answered 400 leaves the servers as they were.
ServerCountWithinLimits ==
    /\ [](api.len >= EffectiveMin(api) /\ api.len <= EffectiveMax(api))
    /\ [][(last'.op \in ApiOps /\ last'.status = 400) =>
              LiveServers(api') = LiveServers(api)]_vars


-----------------------------------------------------------------------------
(* UpdateConfig step by step.  ProxyServiceImpl.UpdateConfig holds p.mu and   *)
(* calls eb.UpdateServers without taking eb.mu: the two loops of              *)
(* UpdateServers (insertions and updates, then deletions) are separate steps  *)
(* here, and the request goroutines, which take eb.mu only, run between       *)
(* them.  A request that enters ServeHTTP meanwhile waits for p.mu.           *)

RaceRequests == 2
RaceUpdates == 2

\* UpdateConfig up to the end of the first loop of UpdateServers.
UpsertInsert(roster) ==
    /\ upsert.pc = "idle"
    /\ budget.upd > 0
    /\ RosterURLs(roster) \subseteq urls
    /\ budget' = [budget EXCEPT !.upd = @ - 1]
    /\ cfgs' = Append(cfgs, Config(roster))
    /\ config' = Len(cfgs) + 1
    /\ LET up == UpsertLoop(servers, conns, Held, Len(cfgs) + 1, roster, 1)
       IN  /\ servers' = up.servers
           /\ conns' = up.conns
           /\ Observe(up.servers, NoURL, FALSE)
    /\ upsert' = [pc |-> "delete", cfg |-> Len(cfgs) + 1]
    /\ last' = Event("UpdateServers", NoURL, TRUE, "insert")
    /\ UNCHANGED <<now, req, pendingRemovals, monitors, urls, callbacks, awrr, ring, http,
                   ctl, met, sticky, api, late>>

\* The second loop of UpdateServers and the return of UpdateConfig.
UpsertDelete ==
    /\ upsert.pc = "delete"
    /\ LET currentServers == RosterURLs(cfgs[upsert.cfg].Servers)
           kept == [u \in (DOMAIN servers) \cap currentServers |-> servers[u]]
       IN  /\ servers' = kept
           /\ conns' = Collect(kept, conns, Held)
           /\ Observe(kept, NoURL, FALSE)
    /\ upsert' = NoUpsert
    /\ last' = Event("UpdateConfig", NoURL, TRUE, "")
    /\ UNCHANGED <<now, cfgs, config, req, pendingRemovals, monitors, budget, urls, callbacks,
                   awrr, ring, http, ctl, met, sticky, api, late>>

\* A proxy serving a roster, under traffic, while the operator reconfigures.
InitRace ==
    /\ InitCommon
    /\ cfgs \in {<<Config(<<Server("u1", 2, 1), Server("u2", 1, 2)>>)>>,
                 <<Config(<<Server("u1", 1, 1)>>)>>}
    /\ config = 1
    /\ servers = UpdateServers(<<>>, <<>>, {}, 1, cfgs[1].Servers).servers
    /\ conns = UpdateServers(<<>>, <<>>, {}, 1, cfgs[1].Servers).conns
    /\ urls = URLs
    /\ budget = [req |-> RaceRequests, par |-> NumRequests, upd |-> RaceUpdates,
                 rem |-> 0, tick |-> 0]

NextRace ==
    \/ \E r \in Requests : upsert.pc = "idle" /\ ServeHTTP(r)
    \/ \E r \in Requests : SelectLock(r)
    \/ \E r \in Requests : SelectPick(r)
    \/ \E r \in Requests : SelectReturn(r)
    \/ \E r \in Requests, status \in Statuses : ModifyResponse(r, status)
    \/ \E roster \in Rosters : UpsertInsert(roster)
    \/ UpsertDelete

SpecRace == InitRace /\ [][NextRace]_vars

\* C29: the Upsert of UpdateConfig is exclusive.  It begins only when no
\* goroutine holds the Registry's read lock, and between its insertions and its
\* deletions no goroutine enumerates the candidates of a Select or records an
\* outcome.
RosterMutationsExclusive ==
    [][/\ (upsert.pc = "idle" /\ upsert'.pc = "delete") => NoReaders
       /\ upsert.pc = "delete" =>
              \A r \in Requests :
                  req[r].pc \in {"rlock", "retry_rlock", "forward"} => req'[r] = req[r]
      ]_vars


-----------------------------------------------------------------------------
(* The roster under Select *)

\* C30: only a reconfiguration changes the Registry's roster: a step that is not
\* an UpdateConfig neither adds a URL to the Registry, nor removes one, nor
\* replaces the ServerState of one.
SelectKeepsRoster ==
    [][IsUpdateConfig \/
       /\ DOMAIN servers' = DOMAIN servers
       /\ \A u \in DOMAIN servers : u \in DOMAIN servers' => servers'[u].id = servers[u].id
      ]_vars


-----------------------------------------------------------------------------
(* Derived metrics *)

\* updateCalculatedMetrics, the error rate it stores when RequestCount > 0:
\* 1.0 - successReqs/totalReqs, kept as the exact fraction
\* (totalReqs - successReqs) / totalReqs.
ErrorRate(metrics) ==
    [num |-> metrics.RequestCount - metrics.SuccessCount, den |-> metrics.RequestCount]

\* C31: after every UpdateStats on a server with at least one request the error
\* rate stored is the server's failure count divided by its request count; it
\* lies in [0, 1] and is 0 when no outcome of the server has failed.
ErrorRateIsFailureShare ==
    [][(/\ last'.op = "UpdateStats"
        /\ last'.url \in DOMAIN servers'
        /\ (IF last'.url \in DOMAIN servers'
            THEN servers'[last'.url].Metrics.RequestCount > 0 ELSE FALSE)) =>
           LET m == servers'[last'.url].Metrics
               e == ErrorRate(m)
           IN  /\ e.num * m.RequestCount = m.FailureCount * e.den
               /\ e.num >= 0 /\ e.num <= e.den
               /\ m.FailureCount = 0 => e.num = 0
      ]_vars


(***************************************************************************)
(* The RingBuffer of response times (algorithms.go:391-423).  Slices are   *)
(* references: rb.heap holds the backing arrays, rb.buffer is the array    *)
(* the RingBuffer writes to, and every GetAll allocates the array of the   *)
(* slice it returns.  rb.added is the sequence of values given to Add and  *)
(* rb.returned records, for each slice GetAll returned, its array and how  *)
(* many values had been added by then.                                     *)
(***************************************************************************)
\* Largest capacity, number of Add calls and number of GetAll calls explored.
RingSize == 3
RingAdds == 5
RingReads == 2

ResponseTimes == {1, 2}

\* algorithms.go:391-396: a zeroed backing array of `size` elements.
NewRingBuffer(size) ==
    [heap |-> <<[i \in 1 .. size |-> 0]>>, buffer |-> 1, size |-> size, index |-> 0,
     full |-> FALSE, added |-> <<>>, returned |-> <<>>]

\* Faulty variant of Add: the full flag is never raised.
AddNeverFull(r, value) ==
    [r EXCEPT !.heap[r.buffer][r.index + 1] = value,
              !.index = (r.index + 1) % r.size,
              !.added = Append(r.added, value)]

\* algorithms.go:398-407.
Add(r, value) ==
    LET index == (r.index + 1) % r.size
    IN  [r EXCEPT !.heap[r.buffer][r.index + 1] = value,
                  !.index = index,
                  !.full = IF index = 0 THEN TRUE ELSE r.full,
                  !.added = Append(r.added, value)]

\* algorithms.go:409-423: the contents of the array GetAll allocates and fills.
GetAll(r) ==
    LET buffer == r.heap[r.buffer]
    IN  IF ~r.full
        THEN SubSeq(buffer, 1, r.index)
        ELSE SubSeq(buffer, r.index + 1, r.size) \o SubSeq(buffer, 1, r.index)

RingAdd(value) ==
    /\ rb.buffer # 0
    /\ Len(rb.added) < RingAdds
    /\ rb' = Add(rb, value)
    /\ UNCHANGED <<core, last, ctl, met, sticky, api, upsert, wrr>>

RingGetAll ==
    /\ rb.buffer # 0
    /\ Len(rb.returned) < RingReads
    /\ rb' = [rb EXCEPT !.heap = Append(rb.heap, GetAll(rb)),
                        !.returned = Append(rb.returned,
                                            [array |-> Len(rb.heap) + 1, after |-> Len(rb.added)])]
    /\ UNCHANGED <<core, last, ctl, met, sticky, api, upsert, wrr>>

InitRing ==
    /\ InitElsewhere
    /\ ctl = NoController
    /\ met = NoMetrics
    /\ sticky = NoSessions
    /\ api = NoAPI
    /\ upsert = NoUpsert
    /\ wrr = NoRoundRobin
    /\ \E size \in 1 .. RingSize : rb = NewRingBuffer(size)

NextRing ==
    \/ \E value \in ResponseTimes : RingAdd(value)
    \/ RingGetAll

SpecRing == InitRing /\ [][NextRing]_vars

\* The last n elements of a sequence, oldest first.
LastValues(seq, n) == SubSeq(seq, Len(seq) - n + 1, Len(seq))

\* C32: every slice GetAll has returned holds, now and after any later Add, exactly the last
\* min(k, N) of the k values added before the call, oldest first, in an array of its own;
\* and a GetAll call leaves the buffer, the write index and the full flag as they were.
GetAllReturnsLastValues ==
    /\ [](\A i \in 1 .. Len(rb.returned) :
            LET slice == rb.returned[i]
                k == slice.after
                n == IF k <= rb.size THEN k ELSE rb.size
            IN  /\ slice.array # rb.buffer
                /\ Len(rb.heap[slice.array]) = n
                /\ rb.heap[slice.array] = LastValues(SubSeq(rb.added, 1, k), n))
    /\ [][Len(rb'.returned) > Len(rb.returned) =>
             /\ rb'.heap[rb'.buffer] = rb.heap[rb.buffer]
             /\ rb'.index = rb.index
             /\ rb'.full = rb.full
             /\ rb'.added = rb.added]_vars

\* A slice returned after the buffer wrapped around (more values added than its capacity,
\* not all equal), followed by a later Add that overwrote the oldest value it holds.
ReadAfterWrapAround ==
    /\ rb.size = 2
    /\ Len(rb.returned) >= 1
    /\ rb.added = <<1, 2, 1, 2>>
    /\ rb.returned[1].after = 3
    /\ rb.heap[rb.returned[1].array] = <<2, 1>>
    /\ rb.heap[rb.buffer] = <<1, 2>>


(***************************************************************************)
(* EnterpriseBalancer.SelectServer with the adaptive weighted round robin  *)
(* as the algorithm it runs (server_lifecycle.go:334-363), UpdateServers   *)
(* on the roster already registered (365-407) and UpdateStats for a        *)
(* successful response (538-593), on the servers of awrr.  The backends    *)
(* are healthy and answer every request successfully in ResponseMillis     *)
(* milliseconds, so every server stays eligible; RequestCount and          *)
(* SuccessCount are the counters ErrorRate is computed from.               *)
(***************************************************************************)
WeightRequests == 3
WeightUpdates == 1
WeightTicks == 2

\* server_lifecycle.go:393-398: UpdateServers on a server it already holds, with
\* the configured weight it already has.
UpdateExisting(svs) ==
    [u \in DOMAIN svs |-> [svs[u] EXCEPT !.EffectiveWeight = svs[u].Weight]]

\* server_lifecycle.go:334-363 with AdaptiveWeightedRoundRobin.SelectServer.
WeightsSelect(list) ==
    /\ budget.req > 0
    /\ LET a   == UpdateWeights([awrr EXCEPT !.servers = UpdateExisting(awrr.servers)],
                                list, now)
           res == AWRRLoop(a.servers, list, 1, NoURL, 0)
           svs == AWRRSettle(res.servers, res.selected, res.totalWeight)
       IN  awrr' = [a EXCEPT !.servers =
                                 [svs EXCEPT ![res.selected].picks = @ + 1,
                                             ![res.selected].RequestCount = @ + 1,
                                             ![res.selected].ActiveConns = @ + 1]]
    /\ budget' = [budget EXCEPT !.req = @ - 1]
    /\ UNCHANGED <<now, cfgs, config, servers, conns, req, pendingRemovals, monitors,
                   urls, last, cur, hist, callbacks, ring, http, more>>

\* UpdateConfig with the same roster and weights: UpdateServers, no server new or gone.
WeightsUpsert ==
    /\ budget.upd > 0
    /\ awrr' = [awrr EXCEPT !.servers = UpdateExisting(awrr.servers)]
    /\ budget' = [budget EXCEPT !.upd = @ - 1]
    /\ UNCHANGED <<now, cfgs, config, servers, conns, req, pendingRemovals, monitors,
                   urls, last, cur, hist, callbacks, ring, http, more>>

\* server_lifecycle.go:538-593 for the successful response of a request in flight on u.
WeightsUpdateStats(u) ==
    /\ awrr.servers[u].ActiveConns > 0
    /\ LET s == awrr.servers[u]
           successReqs == s.SuccessCount + 1
       IN  awrr' = [awrr EXCEPT !.servers[u] =
                       [s EXCEPT !.ActiveConns = @ - 1,
                                 !.SuccessCount = successReqs,
                                 !.ErrorRate = Milli - (successReqs * Milli) \div s.RequestCount,
                                 !.P95ResponseTime = ResponseMillis]]
    /\ UNCHANGED <<now, cfgs, config, servers, conns, req, pendingRemovals, monitors,
                   budget, urls, last, cur, hist, callbacks, ring, http, more>>

WeightsTick ==
    /\ budget.tick > 0
    /\ \E d \in {1, WeightUpdatePeriod} : now' = now + d
    /\ budget' = [budget EXCEPT !.tick = @ - 1]
    /\ UNCHANGED <<cfgs, config, servers, conns, req, pendingRemovals, monitors,
                   urls, last, cur, hist, callbacks, awrr, ring, http, more>>

\* Two servers as UpdateServers made them at the first SelectServer, which is about to run
\* the algorithm for the first time.
InitWeights ==
    /\ now = 0
    /\ cfgs = <<>>
    /\ config = 0
    /\ servers = <<>>
    /\ conns = <<>>
    /\ req = [r \in Requests |-> IdleReq]
    /\ pendingRemovals = <<>>
    /\ monitors = [u \in URLs |-> 0]
    /\ budget = [req |-> WeightRequests, par |-> 0, upd |-> WeightUpdates, rem |-> 0,
                 tick |-> WeightTicks]
    /\ urls = URLs
    /\ last = Event("init", NoURL, TRUE, "")
    /\ cur = [u \in URLs |-> FreshObs]
    /\ hist = [u \in URLs |-> FreshObs]
    /\ callbacks = NoCallbacks
    /\ \E w \in [{"u1", "u2"} -> 1..MaxWeight] :
           awrr = [lastUpdate |-> ZeroTime,
                   servers |-> [u \in {"u1", "u2"} |->
                                   [RequestCount |-> 0, SuccessCount |-> 0] @@ PoolState(w[u])]]
    /\ ring = NoRing
    /\ http = NoRequest
    /\ InitMore

NextWeights ==
    \/ \E list \in Orders(DOMAIN awrr.servers) : WeightsSelect(list)
    \/ WeightsUpsert
    \/ \E u \in DOMAIN awrr.servers : WeightsUpdateStats(u)
    \/ WeightsTick

SpecWeights == InitWeights /\ [][NextWeights]_vars

\* C33: a step that is not a recomputation (lastUpdate stays) and leaves the configured
\* weights as they are, be it a Select, an Upsert or an outcome, leaves every server's
\* effective weight as the most recent recomputation made it.
EffectiveWeightKeptBetweenUpdates ==
    [][(awrr'.lastUpdate = awrr.lastUpdate /\ awrr.lastUpdate # ZeroTime) =>
          \A u \in DOMAIN awrr.servers :
              awrr'.servers[u].Weight = awrr.servers[u].Weight =>
                  awrr'.servers[u].EffectiveWeight = awrr.servers[u].EffectiveWeight]_vars


-----------------------------------------------------------------------------
(* The lifetime of a RemovalState *)

\* server_lifecycle.go:117-122.
IsServerDraining(pr, u) == u \in DOMAIN pr

\* C34: IsServerDraining(U) becomes true only by a StartGracefulRemoval(U) that was accepted
\* and is true right after it; it becomes false only when a monitor finalizes the drain or
\* the drain is cancelled or forced, and stays true over every other step; and a monitor
\* finalizes (RemovalState deleted, onDrained and onRemoved called) only when the in-flight
\* counter of the RemovalState reads zero or the drain deadline has been reached, never
\* with requests in flight before the deadline.
RemovalStateLifetime ==
    [][\A u \in URLs :
           /\ (~IsServerDraining(pendingRemovals, u) /\ IsServerDraining(pendingRemovals', u))
                  => last' = Event("StartGracefulRemoval", u, TRUE, "")
           /\ last' = Event("StartGracefulRemoval", u, TRUE, "")
                  => (/\ ~IsServerDraining(pendingRemovals, u)
                      /\ IsServerDraining(pendingRemovals', u)
                      /\ pendingRemovals'[u].DrainDeadline = now + DrainTimeout)
           /\ (IsServerDraining(pendingRemovals, u) /\ ~IsServerDraining(pendingRemovals', u))
                  => (/\ last'.url = u
                      /\ last'.op \in {"checkAndFinalizeDrain", "CancelRemoval", "ForceRemoval"})
           /\ (IsServerDraining(pendingRemovals, u)
                  /\ last' = Event("checkAndFinalizeDrain", u, TRUE, "drained"))
                  => (/\ (\/ conns[pendingRemovals[u].ConnectionCount] = 0
                          \/ now >= pendingRemovals[u].DrainDeadline)
                      /\ ~IsServerDraining(pendingRemovals', u)
                      /\ callbacks'.drained[u] = callbacks.drained[u] + 1
                      /\ callbacks'.removed[u] = callbacks.removed[u] + 1)
      ]_vars

\* C34 witness: a request was selected for u1, and a monitor ended the drain of u1 before
\* its deadline, when the request was over and the counter read zero.
DrainedBeforeDeadline ==
    /\ last = Event("checkAndFinalizeDrain", "u1", TRUE, "drained")
    /\ now < DrainTimeout
    /\ servers["u1"].Metrics.RequestCount = 1
    /\ conns[servers["u1"].id] = 0
    /\ ~IsServerDraining(pendingRemovals, "u1")
    /\ callbacks.drained["u1"] = 1


\* C35: the in-flight connection count of every server in the Registry is never negative.
ActiveConnsNeverNegative ==
    \A u \in DOMAIN servers : conns[servers[u].id] >= 0


-----------------------------------------------------------------------------
(* The breaker's failure count *)

\* C36: in every state a Closed breaker has a failure count below its threshold and an Open
\* or HalfOpen breaker one at or above it; and over every step the failure count of a
\* ServerState stays as it is, or grows by one with a recorded failure (which opens the
\* breaker when the count reaches the threshold), or drops to zero as the breaker goes from
\* HalfOpen to Closed: successes recorded while Closed leave it alone.
FailureCountMatchesBreaker ==
    /\ [](\A u \in DOMAIN servers :
            LET cb == servers[u].CircuitBreaker
            IN  /\ cb.State = "Closed" => cb.FailureCount < cb.FailureThreshold
                /\ cb.State \in {"Open", "HalfOpen"} => cb.FailureCount >= cb.FailureThreshold)
    /\ [][\A u \in URLs :
            SameState(servers, servers', u) =>
                LET a == servers[u].CircuitBreaker
                    b == servers'[u].CircuitBreaker
                IN  \/ b.FailureCount = a.FailureCount
                         /\ ~(last'.op = "UpdateStats" /\ last'.url = u /\ ~last'.ok)
                    \/ /\ b.FailureCount = a.FailureCount + 1
                       /\ last'.op = "UpdateStats" /\ last'.url = u /\ ~last'.ok
                       /\ b.FailureCount >= b.FailureThreshold => b.State = "Open"
                    \/ /\ b.FailureCount = 0
                       /\ a.State = "HalfOpen" /\ b.State = "Closed"]_vars

\* C36 witness: the breaker of u1 has just opened on its tenth failure, which followed a
\* success: the failures were not consecutive.
OpenedByScatteredFailures ==
    /\ "u1" \in DOMAIN servers
    /\ last.op = "UpdateStats" /\ last.url = "u1" /\ ~last.ok /\ last.pre = "Closed"
    /\ servers["u1"].CircuitBreaker.State = "Open"
    /\ servers["u1"].CircuitBreaker.FailureCount = FailureThreshold
    /\ servers["u1"].ConsecutiveFails = 1
    /\ servers["u1"].Metrics.SuccessCount >= 1


-----------------------------------------------------------------------------
(* Health after a failure *)

\* Healthy < Degraded < Unhealthy; Recovering, which no code assigns, ranks with Degraded.
HealthRank(h) ==
    CASE h = "Healthy"    -> 0
      [] h = "Degraded"   -> 1
      [] h = "Recovering" -> 1
      [] h = "Unhealthy"  -> 2

RelapseRequests == 4
RelapseUpdates == 1
RelapseTicks == 6

\* The single server u1 made Unhealthy by ten failures in a row, its breaker Open, with
\* requests two at a time and time for the breaker to admit requests twice more.
InitRelapse ==
    /\ InitParts
    /\ callbacks = NoCallbacks
    /\ now = 0
    /\ req = [r \in Requests |-> IdleReq]
    /\ pendingRemovals = <<>>
    /\ monitors = [u \in URLs |-> 0]
    /\ cfgs = <<Config(<<Server("u1", 1, 1)>>)>>
    /\ config = 1
    /\ urls = {"u1"}
    /\ LET up == UpdateServers(<<>>, <<>>, {}, 1, <<Server("u1", 1, 1)>>)
           st == AfterFailures(up.servers, up.conns, FreshObs, UnhealthyFails)
       IN  /\ servers = st.servers
           /\ conns = st.conns
           /\ cur = [u \in URLs |-> IF u = "u1" THEN st.obs ELSE FreshObs]
           /\ hist = [u \in URLs |-> IF u = "u1" THEN st.obs ELSE FreshObs]
    /\ last = Unavailable([Event("UpdateStats", "u1", FALSE, "Closed") EXCEPT !.err = UnexpectedEOF])
    /\ budget = [req |-> RelapseRequests, par |-> NumRequests, upd |-> RelapseUpdates,
                 rem |-> 0, tick |-> RelapseTicks]

SpecRelapse == InitRelapse /\ [][NextBreaker]_vars

\* C37: a step that records a failed outcome for a server leaves its health classification
\* at least as bad as it was.
FailureNeverHeals ==
    [][\A u \in URLs :
          (SameState(servers, servers', u)
              /\ last'.op = "UpdateStats" /\ last'.url = u /\ ~last'.ok)
              => HealthRank(servers'[u].HealthState) >= HealthRank(servers[u].HealthState)]_vars


(***************************************************************************)
(* AdaptiveWeightedRoundRobin.SelectServer called by several goroutines at *)
(* once (algorithms.go:18-43).  EnterpriseBalancer.SelectServer calls it   *)
(* holding eb.mu.RLock (server_lifecycle.go:340-352), which any number of  *)
(* goroutines hold together, and the algorithm has no lock of its own.     *)
(* "server.CurrentWeight += w" and "selected.CurrentWeight -= totalWeight" *)
(* are a read and a write of the field; reg is the value a goroutine has   *)
(* read and not yet written back.  Statements of different goroutines      *)
(* interleave at these reads and writes.                                   *)
(***************************************************************************)
WrrSelects == 3
NumCallers == 2

Callers == 1 .. NumCallers

IdleCaller ==
    [pc |-> "idle", list |-> <<>>, i |-> 0, selected |-> NoURL, totalWeight |-> 0, reg |-> 0]

\* algorithms.go:18-27: the call with the slice of eligible servers, UpdateWeights, and the
\* loop variables before the first iteration.
WrrEnter(c, list) ==
    /\ wrr.g[c].pc = "idle"
    /\ wrr.calls < WrrSelects
    /\ wrr' = [UpdateWeights(wrr, list, now) EXCEPT
                  !.g[c] = [IdleCaller EXCEPT !.pc = "read", !.list = list, !.i = 1],
                  !.calls = @ + 1]
    /\ UNCHANGED <<core, last, ctl, met, sticky, api, upsert, rb>>

\* algorithms.go:29: server.CurrentWeight is read.
WrrRead(c) ==
    /\ wrr.g[c].pc = "read"
    /\ wrr' = [wrr EXCEPT !.g[c].reg = wrr.servers[wrr.g[c].list[wrr.g[c].i]].CurrentWeight,
                          !.g[c].pc = "write"]
    /\ UNCHANGED <<core, last, ctl, met, sticky, api, upsert, rb>>

\* algorithms.go:29-35: the sum is written to server.CurrentWeight, totalWeight grows, and
\* the server is compared with the best one so far.
WrrWrite(c) ==
    /\ wrr.g[c].pc = "write"
    /\ LET g   == wrr.g[c]
           u   == g.list[g.i]
           svs == [wrr.servers EXCEPT ![u].CurrentWeight = g.reg + wrr.servers[u].EffectiveWeight]
           sel == IF g.selected = NoURL THEN u
                  ELSE IF svs[u].CurrentWeight > svs[g.selected].CurrentWeight
                       THEN u ELSE g.selected
       IN  wrr' = [wrr EXCEPT !.servers = svs,
                              !.g[c].selected = sel,
                              !.g[c].totalWeight = @ + wrr.servers[u].EffectiveWeight,
                              !.g[c].reg = 0,
                              !.g[c].i = @ + 1,
                              !.g[c].pc = IF g.i = Len(g.list) THEN "settle" ELSE "read"]
    /\ UNCHANGED <<core, last, ctl, met, sticky, api, upsert, rb>>

\* algorithms.go:39: selected.CurrentWeight is read.
WrrSettleRead(c) ==
    /\ wrr.g[c].pc = "settle"
    /\ wrr' = [wrr EXCEPT !.g[c].reg = wrr.servers[wrr.g[c].selected].CurrentWeight,
                          !.g[c].pc = "return"]
    /\ UNCHANGED <<core, last, ctl, met, sticky, api, upsert, rb>>

\* algorithms.go:39-42: the difference is written and the call returns.
WrrSettleWrite(c) ==
    /\ wrr.g[c].pc = "return"
    /\ LET g == wrr.g[c]
       IN  wrr' = [wrr EXCEPT !.servers[g.selected].CurrentWeight = g.reg - g.totalWeight,
                              !.g[c] = IdleCaller]
    /\ UNCHANGED <<core, last, ctl, met, sticky, api, upsert, rb>>

\* Two servers as UpdateServers makes them and a new AdaptiveWeightedRoundRobin.
InitWrr ==
    /\ InitElsewhere
    /\ ctl = NoController
    /\ met = NoMetrics
    /\ sticky = NoSessions
    /\ api = NoAPI
    /\ upsert = NoUpsert
    /\ rb = NoRingBuffer
    /\ \E w \in [{"u1", "u2"} -> 1 .. MaxWeight] :
           wrr = [lastUpdate |-> ZeroTime,
                  servers |-> [u \in {"u1", "u2"} |-> PoolState(w[u])],
                  g |-> [c \in Callers |-> IdleCaller],
                  calls |-> 0]

NextWrr ==
    \/ \E c \in Callers, list \in Orders(DOMAIN wrr.servers) : WrrEnter(c, list)
    \/ \E c \in Callers : WrrRead(c)
    \/ \E c \in Callers : WrrWrite(c)
    \/ \E c \in Callers : WrrSettleRead(c)
    \/ \E c \in Callers : WrrSettleWrite(c)

SpecWrr == InitWrr /\ [][NextWrr]_vars

\* C38: whenever no Select is running, the current weights of the servers add up to zero.
CurrentWeightsSumToZero ==
    (\A c \in Callers : wrr.g[c].pc = "idle") =>
        wrr.servers["u1"].CurrentWeight + wrr.servers["u2"].CurrentWeight = 0


(***************************************************************************)
(* The Adaptive Controller with Select calls one after the other, beside   *)
(* changes of the configuration.  ProxyServiceImpl.UpdateConfig calls      *)
(* UpdateServers without eb.mu (proxy_service.go:90-103), so the Registry  *)
(* can change between two rounds of the loop of evaluateAlgorithms, which  *)
(* runs under eb.mu.RLock.                                                 *)
(***************************************************************************)
ReloadSelects == 3
ReloadUpdates == 2
ReloadTicks == 1

\* server_lifecycle.go:365-407 on the request counts calculateLoadBalanceScore reads: a new
\* server starts at 0, a listed server keeps its count, an unlisted one is deleted.
ReloadUpdateServers(roster) ==
    /\ budget.upd > 0
    /\ roster # DOMAIN ctl.load
    /\ budget' = [budget EXCEPT !.upd = @ - 1]
    /\ ctl' = [ctl EXCEPT !.load = [u \in roster |->
                                       IF u \in DOMAIN ctl.load THEN ctl.load[u] ELSE 0]]
    /\ last' = Event("UpdateServers", NoURL, TRUE, "")
    /\ UNCHANGED <<now, cfgs, config, servers, conns, req, pendingRemovals, monitors,
                   urls, cur, hist, callbacks, awrr, ring, http, others>>

\* SelectServer called when no other call of it is running.
SerialSelect(g) ==
    /\ \A q \in Selectors : ctl.g[q].pc = "idle"
    /\ ctl.calls < ReloadSelects
    /\ EnterSelect(g)

\* The deployment of InitAdaptive with a configuration that may change.
InitReload ==
    /\ now = 0
    /\ cfgs = <<>>
    /\ config = 0
    /\ servers = <<>>
    /\ conns = <<>>
    /\ req = [r \in Requests |-> IdleReq]
    /\ pendingRemovals = <<>>
    /\ monitors = [u \in URLs |-> 0]
    /\ budget = [req |-> 0, par |-> 0, upd |-> ReloadUpdates, rem |-> 0, tick |-> ReloadTicks]
    /\ urls = URLs
    /\ last = Event("init", NoURL, TRUE, "")
    /\ cur = [u \in URLs |-> FreshObs]
    /\ hist = [u \in URLs |-> FreshObs]
    /\ callbacks = NoCallbacks
    /\ awrr = [lastUpdate |-> ZeroTime, servers |-> <<>>]
    /\ ring = NoRing
    /\ http = NoRequest
    /\ ctl = [NoController EXCEPT
                 !.algorithmScores =
                     [n \in Algorithms |->
                         calculateAlgorithmScore(n, [u \in URLs |-> 0])],
                 !.evaluatedAt = 0,
                 !.load = [u \in URLs |-> IF u = "u1" THEN 1 ELSE 0],
                 !.g = [g \in Selectors |-> IdleSelector]]
    /\ met = NoMetrics
    /\ sticky = NoSessions
    /\ api = NoAPI
    /\ upsert = NoUpsert
    /\ InitLate

NextReload ==
    \/ \E g \in Selectors : SerialSelect(g)
    \/ \E g \in Selectors : EvaluateLock(g)
    \/ \E g \in Selectors, name \in Algorithms : EvaluateStep(g, name)
    \/ \E g \in Selectors : Compare(g)
    \/ \E g \in Selectors : ReadScores(g)
    \/ \E g \in Selectors : Switch(g)
    \/ \E g \in Selectors : RecordSwitch(g)
    \/ \E g \in Selectors, u \in URLs : ReturnAlgorithm(g, u)
    \/ \E roster \in (SUBSET URLs) \ {{}} : ReloadUpdateServers(roster)
    \/ Tick

SpecReload == InitReload /\ [][NextReload]_vars

\* C39: the score does not depend on the algorithm scored, and as long as Select calls do
\* not overlap every evaluation that has ended left equal scores for all the algorithms and
\* the current algorithm is adaptive_weighted.
SerialSelectsNeverSwitch ==
    /\ \A n, m \in Algorithms :
           calculateAlgorithmScore(n, ctl.load) = calculateAlgorithmScore(m, ctl.load)
    /\ ctl.lock = 0 =>
           \A n, m \in Algorithms :
               ScoreOf(ctl.algorithmScores, n) = ScoreOf(ctl.algorithmScores, m)
    /\ ctl.currentAlgorithm = "adaptive_weighted"


(***************************************************************************)
(* The API keys of the Configuration API (part_001:84-135, 136-159).  A    *)
(* []string is a reference to a backing array: api.heap holds the arrays,  *)
(* api.Security the two slices of the Config the ConfigManager holds.      *)
(* ConfigManager.GetConfig copies the Config struct, so the copy's slices  *)
(* refer to the same arrays (config_manager.go:76-85).                     *)
(***************************************************************************)
KeyCalls == 3
MaxKeys == 2

Masked == "***"

\* The values of the X-API-KEY header ("" when the header is absent) and the keys an
\* administrator may configure.
HeaderKeys == {"", "k1", "k2", Masked}
ConfigurableKeys == {"k1", "k2", Masked}

KeyLists(S, n) == UNION {[1 .. k -> S] : k \in 0 .. n}

\* config_manager.go:76-85: the copy of the struct holds the same slices.
GetConfig(a) == a.Security

\* part_001:84-104.
authenticate(a, apiKey) ==
    LET copy == GetConfig(a)
    IN  /\ apiKey # ""
        /\ \/ \E i \in 1 .. copy.AdminAPIKeys.len :
                  a.heap[copy.AdminAPIKeys.array][i] = apiKey
           \/ \E i \in 1 .. copy.APIKeys.len :
                  a.heap[copy.APIKeys.array][i] = apiKey

\* part_001:106-120.
authenticateAdmin(a, apiKey) ==
    LET copy == GetConfig(a)
    IN  /\ apiKey # ""
        /\ \E i \in 1 .. copy.AdminAPIKeys.len :
               a.heap[copy.AdminAPIKeys.array][i] = apiKey

\* part_001:122-135: GET /config, which needs no key.  The loops write "***" through the
\* slices of the copy; the response is the encoding of the copy.
KeysGetConfig ==
    /\ api.calls > 0
    /\ LET copy == GetConfig(api)
           heap   == [j \in DOMAIN api.heap |->
                         IF j \in {copy.APIKeys.array, copy.AdminAPIKeys.array}
                         THEN [i \in DOMAIN api.heap[j] |-> Masked]
                         ELSE api.heap[j]]
       IN  api' = [api EXCEPT !.heap = heap,
                              !.response = [APIKeys      |-> heap[copy.APIKeys.array],
                                            AdminAPIKeys |-> heap[copy.AdminAPIKeys.array]],
                              !.calls = @ - 1]
    /\ last' = [Event("getConfig", NoURL, TRUE, "") EXCEPT !.status = 200]
    /\ UNCHANGED <<balancer, ctl, met, sticky, upsert>>

\* part_001:20-33: a request to /servers with a method that is not handled.
KeysServers(apiKey) ==
    /\ api.calls > 0
    /\ api' = [api EXCEPT !.calls = @ - 1, !.response = <<>>]
    /\ last' = IF authenticate(api, apiKey)
               THEN [Event("servers", NoURL, TRUE, apiKey) EXCEPT !.status = 405]
               ELSE [Event("servers", NoURL, FALSE, apiKey) EXCEPT !.status = 401]
    /\ UNCHANGED <<balancer, ctl, met, sticky, upsert>>

\* part_001:49-63, 142-159: PUT /security with a key and new lists of keys, which the
\* decoder puts into arrays of their own.
KeysUpdateSecurity(apiKey, keys, admins) ==
    /\ api.calls > 0
    /\ IF authenticateAdmin(api, apiKey)
       THEN /\ api' = [api EXCEPT !.heap = <<keys, admins>>,
                                  !.Security = [APIKeys      |-> [array |-> 1, len |-> Len(keys)],
                                                AdminAPIKeys |-> [array |-> 2, len |-> Len(admins)]],
                                  !.response = <<>>,
                                  !.calls = @ - 1]
            /\ last' = [Event("updateSecurity", NoURL, TRUE, apiKey) EXCEPT !.status = 200]
       ELSE /\ api' = [api EXCEPT !.calls = @ - 1, !.response = <<>>]
            /\ last' = [Event("updateSecurity", NoURL, FALSE, apiKey) EXCEPT !.status = 403]
    /\ UNCHANGED <<balancer, ctl, met, sticky, upsert>>

\* The configuration as loaded: up to MaxKeys regular keys and an admin key or none.
InitKeys ==
    /\ InitElsewhere
    /\ ctl = NoController
    /\ met = NoMetrics
    /\ sticky = NoSessions
    /\ upsert = NoUpsert
    /\ InitLate
    /\ \E keys \in KeyLists(ConfigurableKeys, MaxKeys), admins \in KeyLists({"k2"}, 1) :
           api = [heap |-> <<keys, admins>>,
                  Security |-> [APIKeys      |-> [array |-> 1, len |-> Len(keys)],
                                AdminAPIKeys |-> [array |-> 2, len |-> Len(admins)]],
                  response |-> <<>>,
                  calls |-> KeyCalls]

NextKeys ==
    \/ KeysGetConfig
    \/ \E apiKey \in HeaderKeys : KeysServers(apiKey)
    \/ \E apiKey \in HeaderKeys, keys \in KeyLists(ConfigurableKeys, 1), admins \in KeyLists({"k2"}, 1) :
           KeysUpdateSecurity(apiKey, keys, admins)

SpecKeys == InitKeys /\ [][NextKeys]_vars

\* The header values authenticate and authenticateAdmin accept.
Accepted(a) == {k \in HeaderKeys : authenticate(a, k)}
AcceptedAdmin(a) == {k \in HeaderKeys : authenticateAdmin(a, k)}

\* C40: a GET /config leaves the keys accepted by authenticate and by authenticateAdmin as
\* they were.
MaskingKeepsAcceptedKeys ==
    [][last'.op = "getConfig" =>
          /\ Accepted(api') = Accepted(api)
          /\ AcceptedAdmin(api') = AcceptedAdmin(api)]_vars

====
